---- MODULE Spec2Model ----
(***************************************************************************)
(* Model of the Polymarket problem analyzer                                *)
(* (src/analyze_polymarket_problems.py): keyword-based problem detection,  *)
(* sentiment labelling, multi-label categorization and the top-N ranking.  *)
(*                                                                         *)
(* A text is a sequence of one-character strings; NaN is the missing text  *)
(* pandas yields for an empty CSV field.  Compound scores are integers in  *)
(* units of 1/10000 (VADER rounds its compound score to four decimals).    *)
(***************************************************************************)
EXTENDS Integers, Sequences, FiniteSets, TLC

VARIABLES pc, problem_keywords, problem_categories, df, problem_df,
          category_counts, top_n, top_problems, result, vader, arg, ret,
          scorer_log, main_ret, run, first_run, files,
          twitter_call, reddit_call

vars == <<pc, problem_keywords, problem_categories, df, problem_df,
          category_counts, top_n, top_problems, result, vader, arg, ret,
          scorer_log, main_ret, run, first_run, files,
          twitter_call, reddit_call>>

\* the frames of the two collector calls: the locals of
\* collect_twitter_posts and of collect_reddit_posts
collector_vars == <<twitter_call, reddit_call>>

\* no call of the collector is in progress
NoCall == [active |-> FALSE]

(***************************************************************************)
(* Bounds of the model.                                                    *)
(***************************************************************************)
MaxLen == 3
MaxKw == 2
MaxCats == 2
MaxCatKw == 1
MaxPosts == 4
MaxTopN == 2
MaxRerunPosts == 2
MaxStagePosts == 2
MaxMainPosts == 1

(***************************************************************************)
(* Strings.                                                                *)
(***************************************************************************)
NaN == <<"NaN">>

isna(text) == text = NaN

\* the lower-case letter of every upper-case ASCII letter
LowerCase ==
    ("A" :> "a") @@ ("B" :> "b") @@ ("C" :> "c") @@ ("D" :> "d")
    @@ ("E" :> "e") @@ ("F" :> "f") @@ ("G" :> "g") @@ ("H" :> "h")
    @@ ("I" :> "i") @@ ("J" :> "j") @@ ("K" :> "k") @@ ("L" :> "l")
    @@ ("M" :> "m") @@ ("N" :> "n") @@ ("O" :> "o") @@ ("P" :> "p")
    @@ ("Q" :> "q") @@ ("R" :> "r") @@ ("S" :> "s") @@ ("T" :> "t")
    @@ ("U" :> "u") @@ ("V" :> "v") @@ ("W" :> "w") @@ ("X" :> "x")
    @@ ("Y" :> "y") @@ ("Z" :> "z")

lower_char(c) == IF c \in DOMAIN LowerCase THEN LowerCase[c] ELSE c

\* str.lower()
RECURSIVE lower(_)
lower(text) ==
    IF text = <<>>
    THEN <<>>
    ELSE Append(lower(SubSeq(text, 1, Len(text) - 1)), lower_char(text[Len(text)]))

\* the substring test  `keyword in text`: the keyword occurs at some position
\* mutant: the keyword is looked for at the start of the text only
str_in_prefix(keyword, text) ==
    /\ Len(keyword) <= Len(text)
    /\ SubSeq(text, 1, Len(keyword)) = keyword

str_in(keyword, text) ==
    \E i \in 1..(Len(text) - Len(keyword) + 1) :
        SubSeq(text, i, i + Len(keyword) - 1) = keyword

(***************************************************************************)
(* Configuration set by __init__.                                          *)
(***************************************************************************)
CodeProblemKeywords ==
    << <<"p","r","o","b","l","e","m">>,
       <<"i","s","s","u","e">>,
       <<"e","r","r","o","r">>,
       <<"b","u","g">>,
       <<"b","r","o","k","e","n">>,
       <<"n","o","t"," ","w","o","r","k","i","n","g">>,
       <<"f","a","i","l","e","d">>,
       <<"f","a","i","l","u","r","e">>,
       <<"c","a","n","t">>,
       <<"c","a","n","n","o","t">>,
       <<"w","o","n","'","t">>,
       <<"d","o","e","s","n","'","t"," ","w","o","r","k">>,
       <<"s","t","u","c","k">>,
       <<"h","e","l","p">>,
       <<"f","i","x">>,
       <<"t","r","o","u","b","l","e">>,
       <<"d","i","f","f","i","c","u","l","t">>,
       <<"h","a","r","d">>,
       <<"c","o","m","p","l","i","c","a","t","e","d">>,
       <<"c","o","n","f","u","s","i","n","g">>,
       <<"f","r","u","s","t","r","a","t","e","d">>,
       <<"a","n","n","o","y","i","n","g">>,
       <<"s","l","o","w">>,
       <<"l","a","g","g","y">>,
       <<"c","r","a","s","h">>,
       <<"f","r","o","z","e","n">>,
       <<"g","l","i","t","c","h">>,
       <<"w","r","o","n","g">>,
       <<"i","n","c","o","r","r","e","c","t">>,
       <<"m","i","s","s","i","n","g">>,
       <<"l","o","s","t">>,
       <<"s","c","a","m">>,
       <<"f","r","a","u","d">>,
       <<"w","i","t","h","d","r","a","w">>,
       <<"w","i","t","h","d","r","a","w","a","l">>,
       <<"l","o","c","k","e","d">>,
       <<"b","a","n","n","e","d">>,
       <<"s","u","s","p","e","n","d","e","d">> >>

\* the dict, in insertion order: <<category, keywords>>
CodeProblemCategories ==
    << <<"withdrawal",
          << <<"w","i","t","h","d","r","a","w">>,
             <<"w","i","t","h","d","r","a","w","a","l">>,
             <<"c","a","s","h"," ","o","u","t">>,
             <<"p","a","y","o","u","t">>,
             <<"t","r","a","n","s","f","e","r"," ","o","u","t">>,
             <<"c","a","n","t"," ","w","i","t","h","d","r","a","w">> >> >>,
       <<"deposit",
          << <<"d","e","p","o","s","i","t">>,
             <<"f","u","n","d">>,
             <<"a","d","d"," ","m","o","n","e","y">>,
             <<"c","a","n","t"," ","d","e","p","o","s","i","t">>,
             <<"p","a","y","m","e","n","t"," ","f","a","i","l","e","d">> >> >>,
       <<"ui_ux",
          << <<"c","o","n","f","u","s","i","n","g">>,
             <<"h","a","r","d"," ","t","o"," ","u","s","e">>,
             <<"i","n","t","e","r","f","a","c","e">>,
             <<"u","i">>,
             <<"u","x">>,
             <<"d","e","s","i","g","n">>,
             <<"n","a","v","i","g","a","t","i","o","n">>,
             <<"f","i","n","d">> >> >>,
       <<"fees",
          << <<"f","e","e">>,
             <<"f","e","e","s">>,
             <<"e","x","p","e","n","s","i","v","e">>,
             <<"c","o","s","t">>,
             <<"c","h","a","r","g","e">>,
             <<"h","i","g","h"," ","f","e","e">> >> >>,
       <<"liquidity",
          << <<"l","i","q","u","i","d","i","t","y">>,
             <<"s","p","r","e","a","d">>,
             <<"s","l","i","p","p","a","g","e">>,
             <<"n","o"," ","o","r","d","e","r","s">>,
             <<"v","o","l","u","m","e">>,
             <<"c","a","n","t"," ","s","e","l","l">>,
             <<"c","a","n","t"," ","b","u","y">> >> >>,
       <<"speed",
          << <<"s","l","o","w">>,
             <<"l","a","g","g","y">>,
             <<"l","o","a","d","i","n","g">>,
             <<"p","e","n","d","i","n","g">>,
             <<"d","e","l","a","y">>,
             <<"w","a","i","t">>,
             <<"t","a","k","i","n","g"," ","f","o","r","e","v","e","r">> >> >>,
       <<"kyc_verification",
          << <<"k","y","c">>,
             <<"v","e","r","i","f","y">>,
             <<"v","e","r","i","f","i","c","a","t","i","o","n">>,
             <<"i","d","e","n","t","i","t","y">>,
             <<"i","d">>,
             <<"r","e","j","e","c","t","e","d">> >> >>,
       <<"market_resolution",
          << <<"r","e","s","o","l","u","t","i","o","n">>,
             <<"r","e","s","o","l","v","e">>,
             <<"o","u","t","c","o","m","e">>,
             <<"r","e","s","u","l","t">>,
             <<"p","a","y","o","u","t">>,
             <<"s","e","t","t","l","e","d">> >> >>,
       <<"polygon_network",
          << <<"p","o","l","y","g","o","n">>,
             <<"m","a","t","i","c">>,
             <<"n","e","t","w","o","r","k">>,
             <<"g","a","s">>,
             <<"t","r","a","n","s","a","c","t","i","o","n"," ","f","a","i","l","e","d">>,
             <<"m","e","t","a","m","a","s","k">> >> >>,
       <<"customer_support",
          << <<"s","u","p","p","o","r","t">>,
             <<"c","u","s","t","o","m","e","r"," ","s","e","r","v","i","c","e">>,
             <<"n","o"," ","r","e","s","p","o","n","s","e">>,
             <<"h","e","l","p">>,
             <<"c","o","n","t","a","c","t">>,
             <<"t","i","c","k","e","t">> >> >> >>

(***************************************************************************)
(* identify_problem_posts.contains_problem                                 *)
(***************************************************************************)
\* mutant: the text is not lowercased before matching
contains_problem_no_lower(text) ==
    IF isna(text)
    THEN FALSE
    ELSE \E k \in 1..Len(problem_keywords) : str_in(problem_keywords[k], text)

contains_problem(text) ==
    IF isna(text)
    THEN FALSE
    ELSE LET text_lower == lower(text)
         IN  \E k \in 1..Len(problem_keywords) :
                 str_in(problem_keywords[k], text_lower)

(***************************************************************************)
(* categorize_problems.find_categories: the loop over the taxonomy dict,   *)
(* after its first n entries.                                              *)
(***************************************************************************)
\* mutant: the loop stops at the first matching category
RECURSIVE find_categories_loop_first(_, _)
find_categories_loop_first(text_lower, n) ==
    IF n = 0
    THEN <<>>
    ELSE LET categories == find_categories_loop_first(text_lower, n - 1)
             category == problem_categories[n][1]
             keywords == problem_categories[n][2]
         IN  IF /\ categories = <<>>
                /\ \E k \in 1..Len(keywords) : str_in(keywords[k], text_lower)
             THEN Append(categories, category)
             ELSE categories

RECURSIVE find_categories_loop(_, _)
find_categories_loop(text_lower, n) ==
    IF n = 0
    THEN <<>>
    ELSE LET categories == find_categories_loop(text_lower, n - 1)
             category == problem_categories[n][1]
             keywords == problem_categories[n][2]
         IN  IF \E k \in 1..Len(keywords) : str_in(keywords[k], text_lower)
             THEN Append(categories, category)
             ELSE categories

\* mutant: a category is assigned unless one of its keywords is missing
find_categories_vacuous(text) ==
    IF isna(text)
    THEN <<>>
    ELSE LET Assigned(item) ==
                 \/ item[2] = <<>>
                 \/ \E k \in 1..Len(item[2]) : str_in(item[2][k], lower(text))
             assigned == SelectSeq(problem_categories, Assigned)
         IN  [i \in 1..Len(assigned) |-> assigned[i][1]]

find_categories(text) ==
    IF isna(text)
    THEN <<>>
    ELSE find_categories_loop(lower(text), Len(problem_categories))

(***************************************************************************)
(* analyze_sentiment.classify_sentiment; 0.05 is 500/10000.                *)
(***************************************************************************)
PositiveThreshold == 500
NegativeThreshold == -500

\* mutant: the thresholds are exclusive
classify_sentiment_exclusive(compound) ==
    IF compound > PositiveThreshold
    THEN "positive"
    ELSE IF compound < NegativeThreshold
         THEN "negative"
         ELSE "neutral"

classify_sentiment(compound) ==
    IF compound >= PositiveThreshold
    THEN "positive"
    ELSE IF compound <= NegativeThreshold
         THEN "negative"
         ELSE "neutral"

SeqsUpTo(S, n) == UNION {[1..m -> S] : m \in 0..n}

(***************************************************************************)
(* The posts of a data file.  A batch is a sequence of at most MaxPosts    *)
(* rows drawn from PostPool; only the columns the analyzer reads are kept. *)
(***************************************************************************)
TextScam == <<"t","h","i","s"," ","i","s"," ","a"," ","s","c","a","m">>
TextFunds == <<"C","a","n","t"," ","W","I","T","H","D","R","A","W"," ","f","u","n","d","s">>
TextFee == <<"w","i","t","h","d","r","a","w"," ","f","e","e"," ","w","r","o","n","g">>
TextSlow == <<"s","l","o","w"," ","w","i","t","h","d","r","a","w"," ","h","e","l","p">>
TextFees == <<"F","e","e","s"," ","a","r","e"," ","w","r","o","n","g">>
TextGreat == <<"g","r","e","a","t"," ","m","a","r","k","e","t">>

DateA == "2025-10-30 09:15:00"
DateB == "2025-10-31 18:40:00"

\* the rows of a data file: id, platform, full_text and created_utc as the
\* collector wrote them
PostPool ==
    { [id |-> "p1", platform |-> "twitter", full_text |-> NaN,       created_utc |-> DateA],
      [id |-> "p2", platform |-> "reddit",  full_text |-> TextGreat, created_utc |-> DateB],
      [id |-> "p3", platform |-> "twitter", full_text |-> TextScam,  created_utc |-> DateA],
      [id |-> "p4", platform |-> "reddit",  full_text |-> TextFunds, created_utc |-> DateB],
      [id |-> "p5", platform |-> "twitter", full_text |-> TextFee,   created_utc |-> DateA],
      [id |-> "p6", platform |-> "reddit",  full_text |-> TextSlow,  created_utc |-> DateB],
      [id |-> "p7", platform |-> "twitter", full_text |-> TextFees,  created_utc |-> DateA] }

Batches == SeqsUpTo(PostPool, MaxPosts)

\* pd.to_datetime of a created_utc field: seconds since the epoch
to_datetime(s) ==
    CASE s = DateA -> 1761815700
      [] s = DateB -> 1761936000

\* pd.read_csv of a data file followed by the conversion of created_utc
read_csv(batch) ==
    [i \in 1..Len(batch) |->
        [id |-> batch[i].id,
         platform |-> batch[i].platform,
         full_text |-> batch[i].full_text,
         created_utc |-> to_datetime(batch[i].created_utc)]]

(***************************************************************************)
(* self.vader: the scorer is a library outside the repository; it is a     *)
(* function from a text to its scores, fixed when the analyzer is built.   *)
(***************************************************************************)
Scores(neg, neu, pos, compound) ==
    [neg |-> neg, neu |-> neu, pos |-> pos, compound |-> compound]

ScoredTexts == {TextGreat, TextScam, TextFunds, TextFee, TextSlow, TextFees}

ScorerA ==
    [t \in ScoredTexts |->
        CASE t = TextGreat -> Scores(0, 1960, 8040, 6249)
          [] t = TextScam  -> Scores(5520, 4480, 0, -5719)
          [] t = TextFunds -> Scores(7000, 3000, 0, -9000)
          [] t = TextFee   -> Scores(500, 9500, 0, -500)
          [] t = TextSlow  -> Scores(0, 4260, 5740, 4019)
          [] t = TextFees -> Scores(499, 9501, 0, -499)]

Scorers == {ScorerA}

polarity_scores(text) == vader[text]

(***************************************************************************)
(* analyze_sentiment.get_vader_sentiment                                   *)
(***************************************************************************)
get_vader_sentiment(text) ==
    IF isna(text)
    THEN Scores(0, 0, 0, 0)
    ELSE polarity_scores(text)

(***************************************************************************)
(* Boolean-mask selection frame[mask] on a frame (a sequence of row        *)
(* records); the mask is a sequence of booleans of the same length.        *)
(***************************************************************************)
RECURSIVE SelectRows(_, _)
SelectRows(rows, mask) ==
    IF rows = <<>>
    THEN <<>>
    ELSE LET n == Len(rows)
             front == SelectRows(SubSeq(rows, 1, n - 1), SubSeq(mask, 1, n - 1))
         IN  IF mask[n] THEN Append(front, rows[n]) ELSE front

(***************************************************************************)
(* identify_problem_posts: the is_problem column and the filtered copy.    *)
(***************************************************************************)
with_is_problem(rows) ==
    [i \in 1..Len(rows) |->
        [id |-> rows[i].id,
         platform |-> rows[i].platform,
         full_text |-> rows[i].full_text,
         created_utc |-> rows[i].created_utc,
         is_problem |-> contains_problem(rows[i].full_text)]]

is_problem_mask(rows) == [i \in 1..Len(rows) |-> rows[i].is_problem]

(***************************************************************************)
(* analyze_sentiment: the sentiment columns.                               *)
(***************************************************************************)
with_sentiment(rows) ==
    [i \in 1..Len(rows) |->
        LET sentiments == get_vader_sentiment(rows[i].full_text)
        IN  [id |-> rows[i].id,
             platform |-> rows[i].platform,
             full_text |-> rows[i].full_text,
             created_utc |-> rows[i].created_utc,
             is_problem |-> rows[i].is_problem,
             sentiment_neg |-> sentiments.neg,
             sentiment_neu |-> sentiments.neu,
             sentiment_pos |-> sentiments.pos,
             sentiment_compound |-> sentiments.compound,
             sentiment |-> classify_sentiment(sentiments.compound)]]

(***************************************************************************)
(* categorize_problems: the problem_categories column, the flattened list  *)
(* of category occurrences and its Counter.  A Counter is the sequence of  *)
(* its <<key, count>> items in insertion order.                            *)
(***************************************************************************)
with_categories(rows) ==
    [i \in 1..Len(rows) |->
        [id |-> rows[i].id,
         platform |-> rows[i].platform,
         full_text |-> rows[i].full_text,
         created_utc |-> rows[i].created_utc,
         is_problem |-> rows[i].is_problem,
         sentiment_neg |-> rows[i].sentiment_neg,
         sentiment_neu |-> rows[i].sentiment_neu,
         sentiment_pos |-> rows[i].sentiment_pos,
         sentiment_compound |-> rows[i].sentiment_compound,
         sentiment |-> rows[i].sentiment,
         problem_categories |-> find_categories(rows[i].full_text)]]

\* mutant: a post is credited to its first category only
RECURSIVE all_categories_first_only(_)
all_categories_first_only(rows) ==
    IF rows = <<>>
    THEN <<>>
    ELSE LET categories == rows[Len(rows)].problem_categories
         IN  all_categories_first_only(SubSeq(rows, 1, Len(rows) - 1))
                \o SubSeq(categories, 1, IF categories = <<>> THEN 0 ELSE 1)

RECURSIVE all_categories(_)
all_categories(rows) ==
    IF rows = <<>>
    THEN <<>>
    ELSE all_categories(SubSeq(rows, 1, Len(rows) - 1))
            \o rows[Len(rows)].problem_categories

CounterAdd(counter, key) ==
    IF \E i \in 1..Len(counter) : counter[i][1] = key
    THEN [i \in 1..Len(counter) |->
            IF counter[i][1] = key
            THEN <<key, counter[i][2] + 1>>
            ELSE counter[i]]
    ELSE Append(counter, <<key, 1>>)

RECURSIVE Counter(_)
Counter(elements) ==
    IF elements = <<>>
    THEN <<>>
    ELSE CounterAdd(Counter(SubSeq(elements, 1, Len(elements) - 1)),
                    elements[Len(elements)])

(***************************************************************************)
(* Counter.most_common(n) is heapq.nlargest(n, items, key=count), and      *)
(* sorted(items, key=count, reverse=True) when n is None.                  *)
(***************************************************************************)
\* list.sort(reverse=True) is stable: an item goes behind every item whose
\* key is not smaller
RECURSIVE sorted_reverse(_)
sorted_reverse(items) ==
    IF items = <<>>
    THEN <<>>
    ELSE LET n == Len(items)
             front == sorted_reverse(SubSeq(items, 1, n - 1))
             x == items[n]
             pos == Cardinality({i \in 1..Len(front) : front[i][2] >= x[2]})
         IN  SubSeq(front, 1, pos) \o <<x>> \o SubSeq(front, pos + 1, Len(front))

\* max(items, key=count): the first item with the largest key
max_first(items) ==
    items[CHOOSE i \in 1..Len(items) :
             /\ \A j \in 1..Len(items) : items[j][2] <= items[i][2]
             /\ \A j \in 1..(i - 1) : items[j][2] < items[i][2]]

\* the heap of nlargest holds (key, order, item) triples, compared as tuples
TripleLess(a, b) == a.k < b.k \/ (a.k = b.k /\ a.order < b.order)

HeapTop(heap) == CHOOSE a \in heap : \A b \in heap : a = b \/ TripleLess(a, b)

RECURSIVE nlargest_scan(_, _, _, _)
nlargest_scan(items, i, heap, order) ==
    IF i > Len(items)
    THEN heap
    ELSE LET top == HeapTop(heap)
             k == items[i][2]
         IN  IF top.k < k
             THEN nlargest_scan(items, i + 1,
                      (heap \ {top}) \cup {[k |-> k, order |-> order, elem |-> items[i]]},
                      order - 1)
             ELSE nlargest_scan(items, i + 1, heap, order)

\* result.sort(reverse=True), then the items of the triples: the smallest
\* triple comes last
RECURSIVE heap_sorted_reverse(_)
heap_sorted_reverse(heap) ==
    IF heap = {}
    THEN <<>>
    ELSE LET top == HeapTop(heap)
         IN  Append(heap_sorted_reverse(heap \ {top}), top.elem)

\* mutant: n is ignored
nlargest_all(n, items) == sorted_reverse(items)

nlargest(n, items) ==
    IF n = 1
    THEN IF items = <<>> THEN <<>> ELSE <<max_first(items)>>
    ELSE IF n >= Len(items)
    THEN sorted_reverse(items)
    ELSE IF n <= 0
    THEN <<>>
    ELSE LET heap == {[k |-> items[i][2], order |-> 1 - i, elem |-> items[i]] :
                          i \in 1..n}
         IN  heap_sorted_reverse(nlargest_scan(items, n + 1, heap, -n))

\* the argument None of most_common
NoneN == -1

\* mutant: the first n items in insertion order, not sorted by count
most_common_unsorted(counter, n) ==
    SubSeq(counter, 1, IF n = NoneN \/ n > Len(counter) THEN Len(counter) ELSE n)

most_common(counter, n) ==
    IF n = NoneN
    THEN sorted_reverse(counter)
    ELSE nlargest(n, counter)

(***************************************************************************)
(* extract_top_problems                                                    *)
(***************************************************************************)
SampleSize == 3

in_list(x, list) == \E i \in 1..Len(list) : list[i] = x

category_mask(rows, category) ==
    [i \in 1..Len(rows) |-> in_list(category, rows[i].problem_categories)]

negative_mask(rows) == [i \in 1..Len(rows) |-> rows[i].sentiment = "negative"]

\* Series.mean() of the sentiment_compound column, as the fraction sum/n
RECURSIVE compound_sum(_)
compound_sum(rows) ==
    IF rows = <<>>
    THEN 0
    ELSE compound_sum(SubSeq(rows, 1, Len(rows) - 1))
            + rows[Len(rows)].sentiment_compound

mean(rows) == [sum |-> compound_sum(rows), n |-> Len(rows)]

\* sort_values(ascending=True) of at most SampleSize rows: stable
RECURSIVE sort_values(_)
sort_values(rows) ==
    IF rows = <<>>
    THEN <<>>
    ELSE LET n == Len(rows)
             front == sort_values(SubSeq(rows, 1, n - 1))
             x == rows[n]
             pos == Cardinality({i \in 1..Len(front) :
                        front[i].sentiment_compound <= x.sentiment_compound})
         IN  SubSeq(front, 1, pos) \o <<x>> \o SubSeq(front, pos + 1, Len(front))

\* kth_smallest(arr, k): the value at position k of the sorted values
kth_smallest(rows, k) ==
    CHOOSE v \in {rows[i].sentiment_compound : i \in 1..Len(rows)} :
        /\ Cardinality({i \in 1..Len(rows) : rows[i].sentiment_compound < v}) < k
        /\ Cardinality({i \in 1..Len(rows) : rows[i].sentiment_compound <= v}) >= k

\* mutant: the first n rows in frame order, not the n smallest
nsmallest_head(n, rows) ==
    SubSeq(rows, 1, IF n > Len(rows) THEN Len(rows) ELSE n)

\* DataFrame.nsmallest(n, 'sentiment_compound') with keep='first'
nsmallest(n, rows) ==
    IF n <= 0
    THEN <<>>
    ELSE IF n >= Len(rows)
    THEN sort_values(rows)
    ELSE LET kth_val == kth_smallest(rows, n)
             ns == SelectRows(rows,
                       [i \in 1..Len(rows) |-> rows[i].sentiment_compound <= kth_val])
         IN  SubSeq(sort_values(ns), 1, n)

full_texts(rows) == [i \in 1..Len(rows) |-> rows[i].full_text]

\* Series.value_counts().to_dict() of the platform column
RECURSIVE platforms_of(_)
platforms_of(rows) ==
    IF rows = <<>>
    THEN <<>>
    ELSE Append(platforms_of(SubSeq(rows, 1, Len(rows) - 1)),
                rows[Len(rows)].platform)

value_counts(rows) == sorted_reverse(Counter(platforms_of(rows)))

\* mutant: the percentage is taken of all posts of the data file
top_problem_of_all_posts(rows, i, item) ==
    LET category == item[1]
        count == item[2]
        category_posts == SelectRows(rows, category_mask(rows, category))
        avg_sentiment == mean(category_posts)
        negative_posts ==
            nsmallest(SampleSize,
                      SelectRows(category_posts, negative_mask(category_posts)))
        samples == full_texts(negative_posts)
    IN  [rank |-> i,
         category |-> category,
         count |-> count,
         percentage |-> [num |-> count * 100, den |-> Len(df.rows)],
         avg_sentiment |-> avg_sentiment,
         sample_complaints |-> samples,
         platforms |-> value_counts(category_posts)]

\* mutant: the mean is taken over every problem post
top_problem_mean_of_all(rows, i, item) ==
    LET category == item[1]
        count == item[2]
        category_posts == SelectRows(rows, category_mask(rows, category))
        avg_sentiment == mean(rows)
        negative_posts ==
            nsmallest(SampleSize,
                      SelectRows(category_posts, negative_mask(category_posts)))
        samples == full_texts(negative_posts)
    IN  [rank |-> i,
         category |-> category,
         count |-> count,
         percentage |-> [num |-> count * 100, den |-> Len(rows)],
         avg_sentiment |-> avg_sentiment,
         sample_complaints |-> samples,
         platforms |-> value_counts(category_posts)]

\* mutant: the platforms are counted over every problem post
top_problem_platforms_of_all(rows, i, item) ==
    LET category == item[1]
        count == item[2]
        category_posts == SelectRows(rows, category_mask(rows, category))
        avg_sentiment == mean(category_posts)
        negative_posts ==
            nsmallest(SampleSize,
                      SelectRows(category_posts, negative_mask(category_posts)))
        samples == full_texts(negative_posts)
    IN  [rank |-> i,
         category |-> category,
         count |-> count,
         percentage |-> [num |-> count * 100, den |-> Len(rows)],
         avg_sentiment |-> avg_sentiment,
         sample_complaints |-> samples,
         platforms |-> value_counts(rows)]

\* mutant: the share is taken of the posts that carry a category
top_problem_share_of_categorized(rows, i, item) ==
    LET category == item[1]
        count == item[2]
        category_posts == SelectRows(rows, category_mask(rows, category))
        avg_sentiment == mean(category_posts)
        negative_posts ==
            nsmallest(SampleSize,
                      SelectRows(category_posts, negative_mask(category_posts)))
        samples == full_texts(negative_posts)
        categorized == {x \in 1..Len(rows) : rows[x].problem_categories # <<>>}
    IN  [rank |-> i,
         category |-> category,
         count |-> count,
         percentage |-> [num |-> count * 100, den |-> Cardinality(categorized)],
         avg_sentiment |-> avg_sentiment,
         sample_complaints |-> samples,
         platforms |-> value_counts(category_posts)]

\* the body of the loop for the i-th item of most_common(top_n)
top_problem(rows, i, item) ==
    LET category == item[1]
        count == item[2]
        category_posts == SelectRows(rows, category_mask(rows, category))
        avg_sentiment == mean(category_posts)
        negative_posts ==
            nsmallest(SampleSize,
                      SelectRows(category_posts, negative_mask(category_posts)))
        samples == full_texts(negative_posts)
    IN  [rank |-> i,
         category |-> category,
         count |-> count,
         percentage |-> [num |-> count * 100, den |-> Len(rows)],
         avg_sentiment |-> avg_sentiment,
         sample_complaints |-> samples,
         platforms |-> value_counts(category_posts)]

extract_top_problems(rows, counts, n) ==
    LET ranked == most_common(counts, n)
    IN  [i \in 1..Len(ranked) |-> top_problem(rows, i, ranked[i])]

(***************************************************************************)
(* Bounded inputs of the function-level specifications.                    *)
(***************************************************************************)
Alphabet == {"a", "b", "A"}

Texts == SeqsUpTo(Alphabet, MaxLen) \cup {NaN}

\* the configured keywords are non-empty strings
Keywords == {<<"a">>, <<"b">>, <<"a", "b">>, <<"A">>}

KeywordLists == SeqsUpTo(Keywords, MaxKw)

\* the keywords of the bounded taxonomies
CategoryKeywords == {<<"a">>, <<"b">>}

CategoryNames == <<"c1", "c2", "c3", "c4">>

\* dicts of at most MaxCats categories with at most MaxCatKw keywords each
Taxonomies ==
    UNION {{[i \in 1..m |-> <<CategoryNames[i], kws[i]>>] :
               kws \in [1..m -> SeqsUpTo(CategoryKeywords, MaxCatKw)]} :
           m \in 0..MaxCats}

CompoundMax == 10000

Idle ==
    /\ df = [isNone |-> TRUE, rows |-> <<>>]
    /\ problem_df = <<>>
    /\ category_counts = <<>>
    /\ top_n = 0
    /\ top_problems = <<>>
    /\ result = "none"
    /\ scorer_log = [calls |-> 0, raised |-> FALSE]
    /\ main_ret = "running"
    /\ run = 1
    /\ first_run = [result |-> "none", top_problems |-> <<>>]
    /\ files = <<>>
    /\ twitter_call = NoCall
    /\ reddit_call = NoCall

pipeline_vars == <<df, problem_df, category_counts, top_n, top_problems, result,
                   scorer_log, main_ret, run, first_run, files, collector_vars>>

(***************************************************************************)
(* Specification of contains_problem over bounded texts and keyword lists. *)
(***************************************************************************)
InitDetect ==
    /\ pc = "call"
    /\ problem_keywords \in KeywordLists
    /\ problem_categories = CodeProblemCategories
    /\ vader = ScorerA
    /\ arg \in Texts
    /\ ret = FALSE
    /\ Idle

CallContainsProblem ==
    /\ pc = "call"
    /\ ret' = contains_problem(arg)
    /\ pc' = "return"
    /\ UNCHANGED <<problem_keywords, problem_categories, vader, arg, pipeline_vars>>

NextDetect == CallContainsProblem

SpecDetect == InitDetect /\ [][NextDetect]_vars

(***************************************************************************)
(* Specification of find_categories over bounded texts and taxonomies.     *)
(***************************************************************************)
InitCategorize ==
    /\ pc = "call"
    /\ problem_keywords = CodeProblemKeywords
    /\ problem_categories \in Taxonomies
    /\ vader = ScorerA
    /\ arg \in Texts
    /\ ret = <<>>
    /\ Idle

CallFindCategories ==
    /\ pc = "call"
    /\ ret' = find_categories(arg)
    /\ pc' = "return"
    /\ UNCHANGED <<problem_keywords, problem_categories, vader, arg, pipeline_vars>>

NextCategorize == CallFindCategories

SpecCategorize == InitCategorize /\ [][NextCategorize]_vars

(***************************************************************************)
(* Specification of classify_sentiment over every compound score.          *)
(***************************************************************************)
InitClassify ==
    /\ pc = "call"
    /\ problem_keywords = CodeProblemKeywords
    /\ problem_categories = CodeProblemCategories
    /\ vader = ScorerA
    /\ arg \in -CompoundMax..CompoundMax
    /\ ret = ""
    /\ Idle

CallClassifySentiment ==
    /\ pc = "call"
    /\ ret' = classify_sentiment(arg)
    /\ pc' = "return"
    /\ UNCHANGED <<problem_keywords, problem_categories, vader, arg, pipeline_vars>>

NextClassify == CallClassifySentiment

SpecClassify == InitClassify /\ [][NextClassify]_vars

(***************************************************************************)
(* The analysis run: main() of run_full_analysis.py from its step 2, that  *)
(* is PolymarketProblemAnalyzer() followed by run_full_analysis(), one     *)
(* action per stage.                                                       *)
(***************************************************************************)
DefaultTopN == 5

TopNs == 1..MaxTopN \cup {DefaultTopN}

Init ==
    /\ pc = "start"
    /\ problem_keywords = CodeProblemKeywords
    /\ problem_categories = CodeProblemCategories
    /\ vader \in Scorers
    /\ arg = <<>>
    /\ ret = <<>>
    /\ Idle

config_vars == <<problem_keywords, problem_categories, vader, arg, ret>>

caller_vars == <<main_ret, run, first_run>>

\* mutant: a run that finds no data file leaves an empty report behind
LoadNoFile_reporting ==
    /\ pc = "start"
    /\ df.isNone
    /\ result' = "None"
    /\ files' = Append(files, "report")
    /\ UNCHANGED collector_vars
    /\ pc' = "done"
    /\ UNCHANGED <<config_vars, caller_vars, scorer_log, df, problem_df,
                   category_counts, top_n, top_problems>>

\* load_latest_data finds no data file: the run returns None
LoadNoFile ==
    /\ pc = "start"
    /\ df.isNone
    /\ result' = "None"
    /\ pc' = "done"
    /\ UNCHANGED <<config_vars, caller_vars, files, collector_vars, scorer_log, df, problem_df,
                   category_counts, top_n, top_problems>>

\* load_latest_data reads the latest data file
LoadLatestData ==
    /\ pc = "start"
    /\ df.isNone
    /\ \E batch \in Batches : df' = [isNone |-> FALSE, rows |-> read_csv(batch)]
    /\ pc' = "identify"
    /\ UNCHANGED <<config_vars, caller_vars, files, collector_vars, scorer_log, problem_df,
                   category_counts, top_n, top_problems, result>>

\* identify_problem_posts on a frame without rows: the share of problem
\* posts divides by len(self.df)
IdentifyRaises ==
    /\ pc = "identify"
    /\ Len(df.rows) = 0
    /\ df' = [df EXCEPT !.rows = with_is_problem(df.rows)]
    /\ result' = "ZeroDivisionError"
    /\ pc' = "raised"
    /\ UNCHANGED <<config_vars, caller_vars, files, collector_vars, scorer_log, problem_df,
                   category_counts, top_n, top_problems>>

\* mutant: the input frame is narrowed to the problem posts
IdentifyProblemPosts_in_place ==
    /\ pc = "identify"
    /\ Len(df.rows) > 0
    /\ problem_df' = SelectRows(with_is_problem(df.rows),
                                is_problem_mask(with_is_problem(df.rows)))
    /\ df' = [df EXCEPT !.rows = problem_df']
    /\ IF Len(problem_df') = 0
       THEN result' = "None" /\ pc' = "done"
       ELSE result' = result /\ pc' = "sentiment"
    /\ UNCHANGED <<config_vars, caller_vars, files, collector_vars, scorer_log, category_counts,
                   top_n, top_problems>>

\* identify_problem_posts, and the return of the run when no post is a
\* problem post
IdentifyProblemPosts ==
    /\ pc = "identify"
    /\ Len(df.rows) > 0
    /\ df' = [df EXCEPT !.rows = with_is_problem(df.rows)]
    /\ problem_df' = SelectRows(df'.rows, is_problem_mask(df'.rows))
    /\ IF Len(problem_df') = 0
       THEN result' = "None" /\ pc' = "done"
       ELSE result' = result /\ pc' = "sentiment"
    /\ UNCHANGED <<config_vars, caller_vars, files, collector_vars, scorer_log, category_counts,
                   top_n, top_problems>>

\* the number of texts among the first n rows that get_vader_sentiment
\* hands to the scorer
invocations(rows, n) == Cardinality({i \in 1..n : ~isna(rows[i].full_text)})

AnalyzeSentiment ==
    /\ pc = "sentiment"
    /\ problem_df' = with_sentiment(problem_df)
    /\ scorer_log' = [scorer_log EXCEPT
                         !.calls = @ + invocations(problem_df, Len(problem_df))]
    /\ pc' = "categorize"
    /\ UNCHANGED <<config_vars, caller_vars, files, collector_vars, df, category_counts, top_n,
                   top_problems, result>>

\* mutant: a score of zero stands in for the one the scorer failed to give
AnalyzeSentimentRaises_default ==
    /\ pc = "sentiment"
    /\ \E i \in 1..Len(problem_df) :
          /\ ~isna(problem_df[i].full_text)
          /\ scorer_log' = [calls |-> scorer_log.calls
                                        + invocations(problem_df, Len(problem_df)),
                            raised |-> TRUE]
    /\ problem_df' = with_sentiment(problem_df)
    /\ pc' = "categorize"
    /\ UNCHANGED <<config_vars, caller_vars, files, collector_vars, df, category_counts, top_n,
                   top_problems, result>>

\* analyze_sentiment when polarity_scores raises on the text of row i: the
\* exception leaves apply, analyze_sentiment and run_full_analysis
AnalyzeSentimentRaises ==
    /\ pc = "sentiment"
    /\ \E i \in 1..Len(problem_df) :
          /\ ~isna(problem_df[i].full_text)
          /\ scorer_log' = [calls |-> scorer_log.calls + invocations(problem_df, i),
                            raised |-> TRUE]
    /\ result' = "ScorerError"
    /\ pc' = "raised"
    /\ UNCHANGED <<config_vars, caller_vars, files, collector_vars, df, problem_df, category_counts,
                   top_n, top_problems>>

\* mutant: the counts of a run are added to those of the run before
CategorizeProblems_accumulating ==
    /\ pc = "categorize"
    /\ problem_df' = with_categories(problem_df)
    /\ category_counts' = category_counts \o Counter(all_categories(problem_df'))
    /\ pc' = "extract"
    /\ UNCHANGED <<config_vars, caller_vars, files, collector_vars, scorer_log, df, top_n,
                   top_problems, result>>

CategorizeProblems ==
    /\ pc = "categorize"
    /\ problem_df' = with_categories(problem_df)
    /\ category_counts' = Counter(all_categories(problem_df'))
    /\ pc' = "extract"
    /\ UNCHANGED <<config_vars, caller_vars, files, collector_vars, scorer_log, df, top_n,
                   top_problems, result>>

\* extract_top_problems; a second run of the same caller asks for the same
\* number of categories
ExtractTopProblems ==
    /\ pc = "extract"
    /\ \E n \in (IF run = 1 THEN TopNs ELSE {top_n}) :
          /\ top_n' = n
          /\ top_problems' = extract_top_problems(problem_df, category_counts, n)
    /\ pc' = "report"
    /\ UNCHANGED <<config_vars, caller_vars, files, collector_vars, scorer_log, df, problem_df,
                   category_counts, result>>

\* generate_report writes the text report
GenerateReport ==
    /\ pc = "report"
    /\ files' = Append(files, "report")
    /\ UNCHANGED collector_vars
    /\ pc' = "visualize"
    /\ UNCHANGED <<config_vars, caller_vars, scorer_log, df, problem_df,
                   category_counts, top_n, top_problems, result>>

\* visualize_results saves the figure
VisualizeResults ==
    /\ pc = "visualize"
    /\ files' = Append(files, "visualization")
    /\ UNCHANGED collector_vars
    /\ pc' = "save"
    /\ UNCHANGED <<config_vars, caller_vars, scorer_log, df, problem_df,
                   category_counts, top_n, top_problems, result>>

\* problem_df.to_csv and the returned dict
SaveAndReturn ==
    /\ pc = "save"
    /\ files' = Append(files, "problem_posts_csv")
    /\ UNCHANGED collector_vars
    /\ result' = "results"
    /\ pc' = "done"
    /\ UNCHANGED <<config_vars, caller_vars, scorer_log, df, problem_df,
                   category_counts, top_n, top_problems>>

\* mutant: the report takes the first category out of the taxonomy
ReportAndReturn_consuming ==
    /\ pc = "report"
    /\ files' = files \o <<"report", "visualization", "problem_posts_csv">>
    /\ UNCHANGED collector_vars
    /\ result' = "results"
    /\ pc' = "done"
    /\ problem_categories' = Tail(problem_categories)
    /\ UNCHANGED <<problem_keywords, vader, arg, ret, caller_vars, scorer_log,
                   df, problem_df, category_counts, top_n, top_problems>>

\* generate_report, visualize_results, to_csv and the returned dict as one
\* step of the run
ReportAndReturn ==
    /\ pc = "report"
    /\ files' = files \o <<"report", "visualization", "problem_posts_csv">>
    /\ UNCHANGED collector_vars
    /\ result' = "results"
    /\ pc' = "done"
    /\ UNCHANGED <<config_vars, caller_vars, scorer_log, df, problem_df,
                   category_counts, top_n, top_problems>>

\* main() after run_full_analysis: None and any exception make it return
\* False, which the script turns into exit status 1
MainReturn ==
    /\ pc \in {"done", "raised"}
    /\ main_ret = "running"
    /\ main_ret' = IF pc = "done" /\ result = "results" THEN "True" ELSE "False"
    /\ UNCHANGED <<pc, config_vars, run, first_run, files, collector_vars, scorer_log, df, problem_df,
                   category_counts, top_n, top_problems, result>>

Next ==
    \/ LoadNoFile
    \/ LoadLatestData
    \/ IdentifyRaises
    \/ IdentifyProblemPosts
    \/ AnalyzeSentiment
    \/ AnalyzeSentimentRaises
    \/ CategorizeProblems
    \/ ExtractTopProblems
    \/ ReportAndReturn
    \/ MainReturn

Spec == Init /\ [][Next]_vars

(***************************************************************************)
(* Specification of get_vader_sentiment over bounded texts; the scorer     *)
(* answers the one text it may be handed with any of SampleScores.         *)
(***************************************************************************)
SampleScores ==
    {Scores(0, 10000, 0, 0), Scores(0, 1960, 8040, 6249), Scores(5000, 5000, 0, -5719)}

InitSentiment ==
    /\ pc = "call"
    /\ problem_keywords = CodeProblemKeywords
    /\ problem_categories = CodeProblemCategories
    /\ arg \in Texts
    /\ vader \in [{arg} \ {NaN} -> SampleScores]
    /\ ret = <<>>
    /\ Idle

CallGetVaderSentiment ==
    /\ pc = "call"
    /\ ret' = get_vader_sentiment(arg)
    /\ scorer_log' = [scorer_log EXCEPT
                         !.calls = @ + invocations(<<[full_text |-> arg]>>, 1)]
    /\ pc' = "return"
    /\ UNCHANGED <<problem_keywords, problem_categories, vader, arg, df,
                   problem_df, category_counts, top_n, top_problems, result,
                   caller_vars, files, collector_vars>>

NextSentiment == CallGetVaderSentiment

SpecSentiment == InitSentiment /\ [][NextSentiment]_vars

(***************************************************************************)
(* Two runs of run_full_analysis() on one analyzer built with a data file, *)
(* PolymarketProblemAnalyzer(data_file), under the taxonomy of the code    *)
(* and under one whose 'fees' category has no keyword.                     *)
(***************************************************************************)
TaxonomyEmptyFees == [CodeProblemCategories EXCEPT ![4] = <<"fees", <<>>>>]

InitRerun ==
    /\ pc = "identify"
    /\ problem_keywords = CodeProblemKeywords
    /\ problem_categories \in {CodeProblemCategories, TaxonomyEmptyFees}
    /\ vader \in Scorers
    /\ arg = <<>>
    /\ ret = <<>>
    /\ \E batch \in SeqsUpTo(PostPool, MaxRerunPosts) :
          df = [isNone |-> FALSE, rows |-> read_csv(batch)]
    /\ problem_df = <<>>
    /\ category_counts = <<>>
    /\ top_n = 0
    /\ top_problems = <<>>
    /\ result = "none"
    /\ scorer_log = [calls |-> 0, raised |-> FALSE]
    /\ main_ret = "running"
    /\ run = 1
    /\ first_run = [result |-> "none", top_problems |-> <<>>]
    /\ files = <<>>
    /\ twitter_call = NoCall
    /\ reddit_call = NoCall

\* the caller keeps what the first run returned and calls run_full_analysis
\* again; self.df is set, so the run starts at identify_problem_posts
RunAgain ==
    /\ pc = "done"
    /\ run = 1
    /\ first_run' = [result |-> result, top_problems |-> top_problems]
    /\ run' = 2
    /\ result' = "none"
    /\ pc' = "identify"
    /\ UNCHANGED <<config_vars, main_ret, files, collector_vars, scorer_log, df, problem_df,
                   category_counts, top_n, top_problems>>

NextRerun ==
    \/ IdentifyRaises
    \/ IdentifyProblemPosts
    \/ AnalyzeSentiment
    \/ AnalyzeSentimentRaises
    \/ CategorizeProblems
    \/ ExtractTopProblems
    \/ ReportAndReturn
    \/ RunAgain

SpecRerun == InitRerun /\ [][NextRerun]_vars

(***************************************************************************)
(* The run over the three posts of the worked example, with its taxonomy   *)
(* and problem keywords; the order of the posts in the data file, further  *)
(* keywords and the scores of the three texts are free.                    *)
(***************************************************************************)
ExampleWithdrawBroken == <<"w","i","t","h","d","r","a","w"," ","i","s"," ","b","r","o","k","e","n",","," ","c","a","n","t"," ","w","i","t","h","d","r","a","w"," ","m","y"," ","f","u","n","d","s">>
ExampleConfusing == <<"t","h","e"," ","u","i"," ","i","s"," ","s","o"," ","c","o","n","f","u","s","i","n","g">>
ExampleWithdrawFailed == <<"w","i","t","h","d","r","a","w"," ","f","a","i","l","e","d"," ","a","g","a","i","n",","," ","s","c","a","m">>

ExamplePosts ==
    { [id |-> "e1", platform |-> "reddit",  full_text |-> ExampleWithdrawBroken, created_utc |-> DateA],
      [id |-> "e2", platform |-> "twitter", full_text |-> ExampleConfusing,      created_utc |-> DateB],
      [id |-> "e3", platform |-> "reddit",  full_text |-> ExampleWithdrawFailed, created_utc |-> DateA] }

ExampleBatches ==
    {batch \in [1..3 -> ExamplePosts] : \A i, j \in 1..3 : batch[i] = batch[j] => i = j}

ExampleKeywords == << <<"b","r","o","k","e","n">>,
                      <<"f","a","i","l","e","d">>,
                      <<"s","c","a","m">>,
                      <<"c","o","n","f","u","s","i","n","g">> >>

ExampleKeywordLists ==
    { ExampleKeywords,
      <<<<"h","e","l","p">>>> \o ExampleKeywords,
      ExampleKeywords \o <<<<"s","t","u","c","k">>>> }

ExampleCategories ==
    << <<"withdrawal", << <<"w","i","t","h","d","r","a","w">> >> >>,
       <<"ui_ux", << <<"c","o","n","f","u","s","i","n","g">> >> >> >>

InitExample ==
    /\ pc = "identify"
    /\ problem_keywords \in ExampleKeywordLists
    /\ problem_categories = ExampleCategories
    /\ vader \in [{ExampleWithdrawBroken, ExampleConfusing, ExampleWithdrawFailed}
                    -> SampleScores]
    /\ arg = <<>>
    /\ ret = <<>>
    /\ \E batch \in ExampleBatches :
          df = [isNone |-> FALSE, rows |-> read_csv(batch)]
    /\ problem_df = <<>>
    /\ category_counts = <<>>
    /\ top_n = 0
    /\ top_problems = <<>>
    /\ result = "none"
    /\ scorer_log = [calls |-> 0, raised |-> FALSE]
    /\ main_ret = "running"
    /\ run = 1
    /\ first_run = [result |-> "none", top_problems |-> <<>>]
    /\ files = <<>>
    /\ twitter_call = NoCall
    /\ reddit_call = NoCall

NextExample ==
    \/ IdentifyProblemPosts
    \/ AnalyzeSentiment
    \/ CategorizeProblems
    \/ ExtractTopProblems
    \/ ReportAndReturn

SpecExample == InitExample /\ [][NextExample]_vars

(***************************************************************************)
(* run_full_analysis() with its three last stages as separate steps, over  *)
(* data files of at most MaxStagePosts posts.                              *)
(***************************************************************************)
StageBatches == SeqsUpTo(PostPool, MaxStagePosts)

\* load_latest_data reads the latest data file, one of StageBatches
LoadStageData ==
    /\ pc = "start"
    /\ df.isNone
    /\ \E batch \in StageBatches : df' = [isNone |-> FALSE, rows |-> read_csv(batch)]
    /\ pc' = "identify"
    /\ UNCHANGED <<config_vars, caller_vars, files, collector_vars, scorer_log, problem_df,
                   category_counts, top_n, top_problems, result>>

NextStages ==
    \/ LoadNoFile
    \/ LoadStageData
    \/ IdentifyRaises
    \/ IdentifyProblemPosts
    \/ AnalyzeSentiment
    \/ AnalyzeSentimentRaises
    \/ CategorizeProblems
    \/ ExtractTopProblems
    \/ GenerateReport
    \/ VisualizeResults
    \/ SaveAndReturn

SpecStages == Init /\ [][NextStages]_vars

(***************************************************************************)
(* main() of run_full_analysis.py from its start: collect_all_data, then   *)
(* the analysis of the data file it wrote.  ret holds what                 *)
(* collect_all_data returned, which is also the content of that file.      *)
(***************************************************************************)
RedditPosts == {post \in PostPool : post.platform = "reddit"}

TwitterPosts == {post \in PostPool : post.platform = "twitter"}

\* the orders sort_values('created_utc', ascending=False) may give the rows
sorted_by_date(rows) ==
    {sorted \in [1..Len(rows) -> {rows[i] : i \in 1..Len(rows)}] :
        /\ \A post \in PostPool :
              Cardinality({i \in 1..Len(rows) : sorted[i] = post})
                  = Cardinality({i \in 1..Len(rows) : rows[i] = post})
        /\ \A i, j \in 1..Len(rows) :
              i < j => to_datetime(sorted[i].created_utc)
                          >= to_datetime(sorted[j].created_utc)}

InitMain ==
    /\ pc = "collect"
    /\ problem_keywords = CodeProblemKeywords
    /\ problem_categories = CodeProblemCategories
    /\ vader \in Scorers
    /\ arg = <<>>
    /\ ret = <<>>
    /\ Idle

\* the constructor of the collector or collect_all_data raises: main()
\* returns False
CollectRaises ==
    /\ pc = "collect"
    /\ result' = "CollectionError"
    /\ main_ret' = "False"
    /\ pc' = "stopped"
    /\ UNCHANGED <<config_vars, run, first_run, files, collector_vars, scorer_log, df, problem_df,
                   category_counts, top_n, top_problems>>

\* collect_all_data: the two frames are combined, and a non-empty
\* combination is sorted and saved as the data file
CollectAllData ==
    /\ pc = "collect"
    /\ \E reddit_df \in SeqsUpTo(RedditPosts, MaxMainPosts),
          twitter_df \in SeqsUpTo(TwitterPosts, MaxMainPosts) :
          \E combined_df \in sorted_by_date(reddit_df \o twitter_df) :
             /\ ret' = combined_df
             /\ files' = IF combined_df # <<>> THEN Append(files, "data_csv") ELSE files
             /\ UNCHANGED collector_vars
    /\ pc' = "collected"
    /\ UNCHANGED <<problem_keywords, problem_categories, vader, arg, caller_vars,
                   scorer_log, df, problem_df, category_counts, top_n,
                   top_problems, result>>

\* mutant: an empty collection does not stop main()
MainAfterCollection_continuing ==
    /\ pc = "collected"
    /\ pc' = "start"
    /\ UNCHANGED <<config_vars, caller_vars, files, collector_vars, scorer_log, df, problem_df,
                   category_counts, top_n, top_problems, result>>

\* main() after collect_all_data: an empty frame makes it return False,
\* otherwise it builds the analyzer and calls run_full_analysis
MainAfterCollection ==
    /\ pc = "collected"
    /\ IF ret = <<>>
       THEN main_ret' = "False" /\ pc' = "stopped"
       ELSE main_ret' = main_ret /\ pc' = "start"
    /\ UNCHANGED <<config_vars, run, first_run, files, collector_vars, scorer_log, df, problem_df,
                   category_counts, top_n, top_problems, result>>

\* load_latest_data reads the data file collect_all_data has just written
LoadCollectedData ==
    /\ pc = "start"
    /\ df.isNone
    /\ \E batch \in {ret} : df' = [isNone |-> FALSE, rows |-> read_csv(batch)]
    /\ pc' = "identify"
    /\ UNCHANGED <<config_vars, caller_vars, files, collector_vars, scorer_log, problem_df,
                   category_counts, top_n, top_problems, result>>

NextMain ==
    \/ CollectRaises
    \/ CollectAllData
    \/ MainAfterCollection
    \/ LoadCollectedData
    \/ IdentifyProblemPosts
    \/ AnalyzeSentiment
    \/ AnalyzeSentimentRaises
    \/ CategorizeProblems
    \/ ExtractTopProblems
    \/ GenerateReport
    \/ VisualizeResults
    \/ SaveAndReturn
    \/ MainReturn

SpecMain == InitMain /\ [][NextMain]_vars

(***************************************************************************)
(* Claims.                                                                 *)
(***************************************************************************)
\* the text is some prefix of itself, then the keyword, then some suffix of
\* itself
HasSubstring(text, keyword) ==
    \E a \in 0..Len(text) : \E b \in a..Len(text) :
        SubSeq(text, 1, a) \o keyword \o SubSeq(text, b + 1, Len(text)) = text

\* C1: contains_problem returns true exactly when the lowercased text has
\* one of the problem keywords as a substring, and false for a null or an
\* empty text.
C1_Detection ==
    pc = "return" =>
        /\ (isna(arg) \/ arg = <<>>) => ret = FALSE
        /\ ~isna(arg) =>
              (ret = TRUE <=>
                  \E k \in 1..Len(problem_keywords) :
                      HasSubstring(lower(arg), problem_keywords[k]))

\* C1 witness: a text with upper-case letters was flagged although no keyword
\* occurs in the text as written; the match exists only after lowercasing.
C1_Witness ==
    /\ pc = "return"
    /\ ret = TRUE
    /\ ~isna(arg)
    /\ arg # lower(arg)
    /\ \A k \in 1..Len(problem_keywords) : ~HasSubstring(arg, problem_keywords[k])

C2_WitnessSome ==
    /\ pc = "return"
    /\ Len(problem_categories) = 2
    /\ Len(ret) = 1

\* C3: the label is negative for compound <= -0.05, positive for
\* compound >= 0.05 and neutral in between.
C3_Label ==
    pc = "return" =>
        /\ arg <= -500 => ret = "negative"
        /\ arg >= 500 => ret = "positive"
        /\ (arg > -500 /\ arg < 500) => ret = "neutral"

\* C3 witness: the boundary score -0.05 was labelled negative.
C3_Witness ==
    /\ pc = "return"
    /\ arg = -500
    /\ ret = "negative"

(***************************************************************************)
(* Claims about the analysis run.                                          *)
(***************************************************************************)
\* the frame has its problem_categories column and the Counter is built
Categorized ==
    pc \in {"extract", "report", "visualize", "save"} \/ (pc = "done" /\ result = "results")

\* extract_top_problems has returned
Ranked == pc \in {"report", "visualize", "save"} \/ (pc = "done" /\ result = "results")

TaxonomyNames == {problem_categories[k][1] : k \in 1..Len(problem_categories)}

\* the problem posts (positions in problem_df) that carry a category
Carriers(category) ==
    {i \in 1..Len(problem_df) :
        \E j \in 1..Len(problem_df[i].problem_categories) :
            problem_df[i].problem_categories[j] = category}

OccurringCategories == {c \in TaxonomyNames : Carriers(c) # {}}

\* the sum of f[x] over the x in S
RECURSIVE SumOver(_, _)
SumOver(S, f) ==
    IF S = {}
    THEN 0
    ELSE LET x == CHOOSE y \in S : TRUE
         IN  f[x] + SumOver(S \ {x}, f)

CountAt(k) == category_counts[k][2]

CategorySetSize(i) ==
    Cardinality({problem_df[i].problem_categories[j] :
                    j \in 1..Len(problem_df[i].problem_categories)})

CompoundAt(i) == problem_df[i].sentiment_compound

MinOf(a, b) == IF a < b THEN a ELSE b

\* C4: the count of a category is the number of problem posts whose category
\* set contains it, every occurring category is counted once, and the counts
\* add up to the sum of the sizes of the posts' category sets.
C4_OccurrenceCount ==
    Categorized =>
        /\ \A k \in 1..Len(category_counts) :
              category_counts[k][2] = Cardinality(Carriers(category_counts[k][1]))
        /\ \A c \in OccurringCategories :
              \E k \in 1..Len(category_counts) : category_counts[k][1] = c
        /\ \A k, l \in 1..Len(category_counts) :
              category_counts[k][1] = category_counts[l][1] => k = l
        /\ SumOver(1..Len(category_counts), [k \in 1..Len(category_counts) |-> CountAt(k)])
              = SumOver(1..Len(problem_df), [i \in 1..Len(problem_df) |-> CategorySetSize(i)])

\* C4 witness: counted batch with a problem post of three categories, one of
\* a single category and one of none.
C4_Witness ==
    /\ Categorized
    /\ \E i \in 1..Len(problem_df) : CategorySetSize(i) = 3
    /\ \E i \in 1..Len(problem_df) : CategorySetSize(i) = 1
    /\ \E i \in 1..Len(problem_df) : CategorySetSize(i) = 0

\* C5: the entry at position i has rank i and counts never increase along the
\* ranked list.
C5_RankOrder ==
    Ranked =>
        /\ \A i \in 1..Len(top_problems) : top_problems[i].rank = i
        /\ \A i, j \in 1..Len(top_problems) :
              i < j => top_problems[i].count >= top_problems[j].count

\* C5 witness: three ranked entries with different counts, the most frequent
\* category not being the one counted first.
C5_Witness ==
    /\ Ranked
    /\ Len(top_problems) >= 3
    /\ top_problems[1].count > top_problems[2].count
    /\ top_problems[2].count > top_problems[3].count
    /\ category_counts[1][1] # top_problems[1].category

AlphabeticalNames ==
    <<"customer_support", "deposit", "fees", "kyc_verification", "liquidity",
      "market_resolution", "polygon_network", "speed", "ui_ux", "withdrawal">>

NameIndex(name) == CHOOSE k \in 1..Len(AlphabeticalNames) : AlphabeticalNames[k] = name

\* C6: of two ranked categories with the same count, the alphabetically
\* smaller one is ranked first.
C6_TieBreakByName ==
    Ranked =>
        \A i, j \in 1..Len(top_problems) :
            (i < j /\ top_problems[i].count = top_problems[j].count)
                => NameIndex(top_problems[i].category) < NameIndex(top_problems[j].category)

\* C7: the ranker returns min(top_n, number of occurring categories) entries,
\* they are the first entries of the full order by count, and no category
\* left out has a larger count than one returned.
C7_TopN ==
    Ranked =>
        LET full == sorted_reverse(category_counts)
        IN  /\ Len(top_problems) = MinOf(top_n, Cardinality(OccurringCategories))
            /\ \A i \in 1..Len(top_problems) :
                  /\ top_problems[i].category = full[i][1]
                  /\ top_problems[i].count = full[i][2]
            /\ \A c \in OccurringCategories :
                  (\A i \in 1..Len(top_problems) : top_problems[i].category # c)
                      => \A i \in 1..Len(top_problems) :
                            Cardinality(Carriers(c)) <= top_problems[i].count

\* C7 witness: two entries were asked for, four or more categories occur, and
\* the two most frequent are not the two counted first.
C7_Witness ==
    /\ Ranked
    /\ top_n = 2
    /\ Len(top_problems) = 2
    /\ Cardinality(OccurringCategories) >= 4
    /\ top_problems[2].category # category_counts[1][1]
    /\ top_problems[2].category # category_counts[2][1]

NumberOfProblemPosts == Cardinality({i \in 1..Len(df.rows) : df.rows[i].is_problem})

\* C8: percentage = count / (number of posts flagged as problems) * 100, as
\* the fraction num/den, and it lies in (0, 100].
C8_Percentage ==
    Ranked =>
        \A i \in 1..Len(top_problems) :
            LET p == top_problems[i].percentage
            IN  /\ p.den > 0
                /\ p.num * NumberOfProblemPosts
                      = 100 * Cardinality(Carriers(top_problems[i].category)) * p.den
                /\ 0 < p.num
                /\ p.num <= 100 * p.den

\* C8 witness: the batch has a post that is no problem and a problem post
\* without category, and a ranked category is below 100 percent.
C8_Witness ==
    /\ Ranked
    /\ \E i \in 1..Len(df.rows) : ~df.rows[i].is_problem
    /\ \E i \in 1..Len(problem_df) : CategorySetSize(i) = 0
    /\ \E i \in 1..Len(top_problems) :
          top_problems[i].percentage.num < 100 * top_problems[i].percentage.den

\* the problem posts that carry the category and are labelled negative
Qualifying(category) ==
    {i \in Carriers(category) : problem_df[i].sentiment = "negative"}

Injective(f) == \A a, b \in DOMAIN f : f[a] = f[b] => a = b

\* the samples are the texts of distinct qualifying posts, in ascending order
\* of compound, and no qualifying post left out has a lower compound
SamplesOf(samples, Q) ==
    \E f \in [1..Len(samples) -> Q] :
        /\ Injective(f)
        /\ \A j \in 1..Len(samples) : problem_df[f[j]].full_text = samples[j]
        /\ \A j, k \in 1..Len(samples) : j < k => CompoundAt(f[j]) <= CompoundAt(f[k])
        /\ \A q \in Q :
              (\A j \in 1..Len(samples) : f[j] # q)
                  => \A j \in 1..Len(samples) : CompoundAt(f[j]) <= CompoundAt(q)

\* C9: sample_complaints holds the texts of the (at most 3) lowest-compound
\* negative problem posts of the category, most negative first, and all of
\* them when fewer than 3 qualify.
C9_Samples ==
    Ranked =>
        \A i \in 1..Len(top_problems) :
            LET samples == top_problems[i].sample_complaints
                Q == Qualifying(top_problems[i].category)
            IN  /\ Len(samples) = MinOf(3, Cardinality(Q))
                /\ SamplesOf(samples, Q)

\* C9 witness: four negative posts carry a ranked category, the first of them
\* in the frame has the highest compound and is left out of the samples.
C9_Witness ==
    /\ Ranked
    /\ \E i \in 1..Len(top_problems) :
          LET Q == Qualifying(top_problems[i].category)
              first == CHOOSE q \in Q : \A r \in Q : q <= r
          IN  /\ Cardinality(Q) >= 4
              /\ \A r \in Q \ {first} : CompoundAt(first) > CompoundAt(r)
              /\ Len(top_problems[i].sample_complaints) = 3
              /\ \A j \in 1..3 :
                    top_problems[i].sample_complaints[j] # problem_df[first].full_text

\* C10: avg_sentiment is the sum of the compound scores of exactly the problem
\* posts carrying the category divided by their number, and so lies between
\* the smallest and the largest of them.
C10_Severity ==
    Ranked =>
        \A i \in 1..Len(top_problems) :
            LET S == Carriers(top_problems[i].category)
                avg == top_problems[i].avg_sentiment
            IN  /\ avg.n = Cardinality(S)
                /\ avg.n > 0
                /\ avg.sum = SumOver(S, [x \in S |-> CompoundAt(x)])
                /\ \E lo \in S : CompoundAt(lo) * avg.n <= avg.sum
                /\ \E hi \in S : avg.sum <= CompoundAt(hi) * avg.n

\* C10 witness: a ranked category is carried by some but not all problem
\* posts, with different compound scores, and a post outside it is more
\* negative than its mean.
C10_Witness ==
    /\ Ranked
    /\ \E i \in 1..Len(top_problems) :
          LET S == Carriers(top_problems[i].category)
              avg == top_problems[i].avg_sentiment
          IN  /\ Cardinality(S) >= 2
              /\ \E a, b \in S : CompoundAt(a) < CompoundAt(b)
              /\ \E o \in (1..Len(problem_df)) \ S : CompoundAt(o) * avg.n < avg.sum

\* C11: the platform breakdown of a ranked category maps every platform of
\* its problem posts to their number on that platform, and the values add up
\* to the count of the category.
C11_PlatformBreakdown ==
    Ranked =>
        \A i \in 1..Len(top_problems) :
            LET S == Carriers(top_problems[i].category)
                platforms == top_problems[i].platforms
            IN  /\ \A k \in 1..Len(platforms) :
                      /\ platforms[k][2] > 0
                      /\ platforms[k][2]
                            = Cardinality({x \in S : problem_df[x].platform = platforms[k][1]})
                /\ \A k, l \in 1..Len(platforms) :
                      platforms[k][1] = platforms[l][1] => k = l
                /\ \A x \in S :
                      \E k \in 1..Len(platforms) : platforms[k][1] = problem_df[x].platform
                /\ SumOver(1..Len(platforms), [k \in 1..Len(platforms) |-> platforms[k][2]])
                      = top_problems[i].count

\* C11 witness: a ranked category has posts on two platforms, and a problem
\* post of one of these platforms does not carry the category.
C11_Witness ==
    /\ Ranked
    /\ \E i \in 1..Len(top_problems) :
          /\ Len(top_problems[i].platforms) = 2
          /\ \E x \in (1..Len(problem_df)) \ Carriers(top_problems[i].category) :
                problem_df[x].platform = top_problems[i].platforms[1][1]

\* C12: a data file without posts yields an empty result and no stage of the
\* run raises an exception.
C12_EmptyBatchNoException ==
    (~df.isNone /\ Len(df.rows) = 0) => pc # "raised"

\* C13: when the batch has posts but none is a problem post, the run has no
\* ranking and its caller does not report a failed run.
C13_NothingToReport ==
    (/\ ~df.isNone
     /\ Len(df.rows) > 0
     /\ Len(problem_df) = 0
     /\ main_ret # "running")
        => (result = "None" /\ top_problems = <<>> /\ main_ret = "True")

\* C15: once the scorer has raised, the run is over with that error: no post
\* carries a score, the scorer was asked at most once per post, there are no
\* counts and no ranking, and the caller does not see a successful run.
C15_ScorerFailureFatal ==
    scorer_log.raised =>
        /\ pc = "raised"
        /\ result = "ScorerError"
        /\ \A i \in 1..Len(problem_df) :
              "sentiment_compound" \notin DOMAIN problem_df[i]
        /\ scorer_log.calls <= invocations(problem_df, Len(problem_df))
        /\ category_counts = <<>>
        /\ top_problems = <<>>
        /\ main_ret # "True"

\* C15 witness: the scorer raised on a later post than the first and the
\* caller has returned.
C15_Witness ==
    /\ scorer_log.raised
    /\ scorer_log.calls >= 2
    /\ main_ret = "False"

\* C19: no step of a run changes the problem-keyword list or the taxonomy.
C19_ImmutableConfiguration ==
    [][/\ problem_keywords' = problem_keywords
       /\ problem_categories' = problem_categories]_vars

\* C19 witness: a run went through every stage and the configuration is the
\* one the constructor set.
C19_Witness ==
    /\ pc = "done"
    /\ result = "results"
    /\ main_ret = "True"
    /\ problem_keywords = CodeProblemKeywords
    /\ problem_categories = CodeProblemCategories

InputColumns == {"id", "platform", "full_text", "created_utc"}

Raw(rows) ==
    [i \in 1..Len(rows) |-> [c \in InputColumns |-> rows[i][c]]]

C14_NeutralDefault ==
    (pc = "return" /\ (isna(arg) \/ arg = <<>>)) =>
        /\ ret.compound = 0
        /\ classify_sentiment(ret.compound) = "neutral"
        /\ scorer_log.calls = 0

\* C16: a second run on the same analyzer returns what the first run
\* returned: the same outcome and the same ranked list, entry by entry.
C16_Determinism ==
    (run = 2 /\ pc = "done") =>
        /\ result = first_run.result
        /\ top_problems = first_run.top_problems

\* C16 witness: the second run has returned a ranking of two categories with
\* sample texts.
C16_Witness ==
    /\ run = 2
    /\ pc = "done"
    /\ result = "results"
    /\ Len(top_problems) >= 2
    /\ \E i \in 1..Len(top_problems) : Len(top_problems[i].sample_complaints) > 0

EmptyCategories ==
    {problem_categories[k][1] :
        k \in {j \in 1..Len(problem_categories) : problem_categories[j][2] = <<>>}}

\* C17: a category without keywords is in no post's category list, in no
\* item of the category counts and in no entry of the ranking, and a run
\* raises only for a frame without rows or a failing scorer.
C17_EmptyKeywordList ==
    /\ \A c \in EmptyCategories :
          /\ \A x \in 1..Len(problem_df) :
                "problem_categories" \in DOMAIN problem_df[x]
                    => ~in_list(c, problem_df[x].problem_categories)
          /\ \A k \in 1..Len(category_counts) : category_counts[k][1] # c
          /\ \A i \in 1..Len(top_problems) : top_problems[i].category # c
    /\ pc = "raised" => (Len(df.rows) = 0 \/ scorer_log.raised)

\* C17 witness: a ranked run under the taxonomy whose 'fees' category has no
\* keyword, over a problem post that speaks of a fee.
C17_Witness ==
    /\ Ranked
    /\ "fees" \in EmptyCategories
    /\ \E x \in 1..Len(problem_df) : problem_df[x].full_text = TextFee

\* C18: detection does not depend on letter case: contains_problem returns
\* true exactly when a keyword, lowercased, is a substring of the lowercased
\* text.
C18_CaseInsensitive ==
    pc = "return" =>
        ret = (/\ ~isna(arg)
               /\ \E k \in 1..Len(problem_keywords) :
                     HasSubstring(lower(arg), lower(problem_keywords[k])))

\* the whole number nearest to a percentage
RoundPercent(p) == (2 * p.num + p.den) \div (2 * p.den)

\* C21: over the three posts of the example every post is a problem post,
\* withdrawal counts 2 and ui_ux counts 1, and a ranking of at least two
\* categories has withdrawal first at 67% and ui_ux second at 33%.
C21_EndToEndExample ==
    /\ pc \notin {"identify", "raised"} =>
          /\ Len(problem_df) = 3
          /\ \A i \in 1..Len(df.rows) : df.rows[i].is_problem
    /\ Categorized =>
          \E k, l \in 1..Len(category_counts) :
             /\ Len(category_counts) = 2
             /\ category_counts[k] = <<"withdrawal", 2>>
             /\ category_counts[l] = <<"ui_ux", 1>>
    /\ (Ranked /\ top_n >= 2) =>
          /\ Len(top_problems) = 2
          /\ top_problems[1].rank = 1
          /\ top_problems[1].category = "withdrawal"
          /\ top_problems[1].count = 2
          /\ RoundPercent(top_problems[1].percentage) = 67
          /\ top_problems[2].rank = 2
          /\ top_problems[2].category = "ui_ux"
          /\ top_problems[2].count = 1
          /\ RoundPercent(top_problems[2].percentage) = 33

\* C21 witness: the run over the example has returned its ranking of two
\* categories, the ui post being the first of the data file.
C21_Witness ==
    /\ pc = "done"
    /\ result = "results"
    /\ Len(top_problems) = 2
    /\ df.rows[1].full_text = ExampleConfusing

Uncategorized == {x \in 1..Len(problem_df) : problem_df[x].problem_categories = <<>>}

RemoveAt(rows, x) == SubSeq(rows, 1, x - 1) \o SubSeq(rows, x + 1, Len(rows))

\* the ranking of the problem posts without post x
RankingWithout(x) ==
    LET rest == RemoveAt(problem_df, x)
    IN  extract_top_problems(rest, Counter(all_categories(rest)), top_n)

\* C22: a problem post without categories leaves every count, sample list,
\* platform breakdown and average as they are without it, its text is in no
\* sample list, and it is one of the posts every percentage is a share of.
C22_UncategorizedProblemPosts ==
    Ranked =>
        \A x \in Uncategorized :
            LET without == RankingWithout(x)
            IN  /\ problem_df[x].is_problem
                /\ \A k \in 1..Len(category_counts) :
                      category_counts[k][1] \notin
                          {problem_df[x].problem_categories[j] :
                              j \in 1..Len(problem_df[x].problem_categories)}
                /\ category_counts = Counter(all_categories(RemoveAt(problem_df, x)))
                /\ Len(without) = Len(top_problems)
                /\ \A i \in 1..Len(top_problems) :
                      /\ top_problems[i].category = without[i].category
                      /\ top_problems[i].count = without[i].count
                      /\ top_problems[i].sample_complaints = without[i].sample_complaints
                      /\ top_problems[i].platforms = without[i].platforms
                      /\ top_problems[i].avg_sentiment = without[i].avg_sentiment
                      /\ ~in_list(problem_df[x].full_text, top_problems[i].sample_complaints)
                      /\ top_problems[i].percentage.den = Len(problem_df)
                      /\ without[i].percentage.den = Len(problem_df) - 1
                      /\ top_problems[i].percentage.num = top_problems[i].count * 100

\* C22 witness: a ranking over a problem post without categories next to a
\* problem post with one.
C22_Witness ==
    /\ Ranked
    /\ Uncategorized # {}
    /\ Len(top_problems) >= 1
    /\ Len(problem_df) >= 2

StageSeq ==
    <<"start", "identify", "sentiment", "categorize", "extract", "report",
      "visualize", "save", "done">>

OutputFiles == <<"report", "visualization", "problem_posts_csv">>

\* the files the run has written when it is about to run the stage at
\* position k of StageSeq
WrittenBefore(k) == SubSeq(OutputFiles, 1, IF k <= 6 THEN 0 ELSE k - 6)

\* C23: every step of the run goes from one stage to the next in the order
\* load, detect, score, categorize, rank, report, visualize, save, or ends the
\* run; only posts that passed detection are scored and categorized; and a
\* run that finds no data file or no problem post returns no result and
\* writes no file.
C23_StageOrder ==
    [][/\ \/ \E k \in 1..(Len(StageSeq) - 1) :
                /\ pc = StageSeq[k]
                /\ pc' = StageSeq[k + 1]
                /\ files = WrittenBefore(k)
                /\ files' = WrittenBefore(k + 1)
          \/ /\ pc \in {"start", "identify"}
             /\ pc' = "done"
             /\ result' = "None"
          \/ /\ pc \in {"identify", "sentiment"}
             /\ pc' = "raised"
       /\ \A x \in 1..Len(problem_df') :
             /\ problem_df'[x].is_problem
             /\ \E i \in 1..Len(df'.rows) : Raw(<<df'.rows[i]>>) = Raw(<<problem_df'[x]>>)
       /\ \A i \in 1..Len(df'.rows) :
             DOMAIN df'.rows[i] \cap {"sentiment", "sentiment_compound", "problem_categories"} = {}
       /\ scorer_log'.calls
             <= Cardinality({i \in 1..Len(df'.rows) :
                               "is_problem" \in DOMAIN df'.rows[i] /\ df'.rows[i].is_problem})
       /\ (pc' = "done" /\ (df'.isNone \/ Len(problem_df') = 0)) =>
             (result' = "None" /\ files' = <<>>)
       /\ result' = "results" => (pc' = "done" /\ files' = OutputFiles)]_vars

\* C23 witness: a run went through every stage, over a data file with a post
\* that did not pass detection.
C23_Witness ==
    /\ pc = "done"
    /\ result = "results"
    /\ files = OutputFiles
    /\ Len(problem_df) < Len(df.rows)

AnalysisStarted == pc \in {StageSeq[k] : k \in 1..Len(StageSeq)} \cup {"raised"}

\* C30: main() starts the analysis only after a collection that returned
\* posts and wrote the data file; it returns True only after the analysis
\* returned its results, and False after a failed or empty collection, an
\* exception of the analysis or an analysis without result; and it always
\* returns.
C30_Orchestration ==
    /\ AnalysisStarted =>
          /\ ret # <<>>
          /\ result # "CollectionError"
          /\ Len(files) >= 1
          /\ files[1] = "data_csv"
    /\ main_ret = "True" =>
          /\ pc = "done"
          /\ result = "results"
          /\ ret # <<>>
    /\ main_ret = "False" =>
          \/ pc = "stopped" /\ (result = "CollectionError" \/ ret = <<>>)
          \/ pc = "raised"
          \/ pc = "done" /\ result = "None"
    /\ main_ret = "running" =>
          /\ pc # "stopped"
          /\ pc = "identify" => Len(df.rows) > 0
          /\ pc \in {"done", "raised"} => ENABLED MainReturn

\* C30 witness: main() has returned True after a collection from both
\* platforms.
C30_Witness ==
    /\ main_ret = "True"
    /\ Len(ret) = 2
    /\ files = <<"data_csv">> \o OutputFiles

\* C30 witness of the other outcome: main() has returned False because the
\* analysis found no problem post in a collection that was not empty.
C30_WitnessFalse ==
    /\ main_ret = "False"
    /\ pc = "done"
    /\ result = "None"
    /\ ret # <<>>

(***************************************************************************)
(* collect_twitter_posts (collect_polymarket_data.py, lines 133-308).     *)
(* twitter_call is the frame of one call: its fields are the locals of    *)
(* the function.  Fields that are not locals of the code: raised (the     *)
(* exception in flight, "None" when there is none), waits (the seconds    *)
(* slept by the retry loop of the current batch, in order), attempts      *)
(* (the requests sent for the current batch) and received (the data of    *)
(* every response, in order).                                             *)
(***************************************************************************)
PageLimit == 100
max_retries == 3
RateLimitWait == 60
ServerErrorWait == 10

\* the largest max_results the model calls the function with
MaxRequested == 102

MaxResultsChoices == {1, 5, PageLimit, MaxRequested}

\* the variables no collector function touches
analysis_vars == <<problem_keywords, problem_categories, df, problem_df,
                   category_counts, top_n, top_problems, result, vader, arg,
                   scorer_log, main_ret, run, first_run, files>>

Min(a, b) == IF a < b THEN a ELSE b

\* a tweet of a response; public_metrics is "None" when the response
\* does not carry the field
Tweet(id, with_metrics) ==
    [id |-> id, public_metrics |-> IF with_metrics THEN "dict" ELSE "None"]

\* the data of a response of n tweets, the tweet at position bad (if any)
\* without public_metrics; ids continue after those already served
ApiData(first, n, bad) == [k \in 1..n |-> Tweet(first + k - 1, k # bad)]

\* the number of tweets in the responses received so far
RECURSIVE Served(_)
Served(batches) ==
    IF batches = <<>> THEN 0
    ELSE Len(batches[1]) + Served(Tail(batches))

\* response before the first answer: None
NoResponse == [isNone |-> TRUE, data |-> <<>>, next_token |-> "None"]

\* the responses the API can give to a request for batch_size tweets: no
\* tweet, half a page (rounded up) or the full page, with or without a
\* next_token, and possibly with a tweet that lacks public_metrics at the
\* first or at the last position
ApiResponses(batch_size, first) ==
    {[isNone |-> FALSE, data |-> ApiData(first, n, bad), next_token |-> t] :
        n \in {0, (batch_size + 1) \div 2, batch_size},
        bad \in {0, 1, batch_size},
        t \in {"None", "token"}}

\* the row the loop of lines 239-263 appends for a tweet
tweet_data(tweet) == [platform |-> "twitter", id |-> tweet.id]

\* the first tweet whose public_metrics cannot be subscripted (lines 245,
\* 254-257), 0 when there is none
FirstBad(data) ==
    IF \E k \in 1..Len(data) : data[k].public_metrics = "None"
    THEN CHOOSE k \in 1..Len(data) :
            /\ data[k].public_metrics = "None"
            /\ \A j \in 1..(k - 1) : data[j].public_metrics # "None"
    ELSE 0

Rows(data, n) == [k \in 1..n |-> tweet_data(data[k])]

InitTwitter ==
    /\ pc = "tw_while"
    /\ \E mr \in MaxResultsChoices :
          twitter_call = [active |-> TRUE, max_results |-> mr, all_tweets |-> <<>>,
                          tweets_collected |-> 0, next_token |-> "None",
                          batch_num |-> 0, batch_size |-> 0, retry_count |-> 0,
                          response |-> NoResponse, raised |-> "None",
                          waits |-> <<>>, attempts |-> 0, received |-> <<>>]
    /\ reddit_call = NoCall
    /\ problem_keywords = CodeProblemKeywords
    /\ problem_categories = CodeProblemCategories
    /\ vader \in Scorers
    /\ arg = <<>>
    /\ ret = <<>>
    /\ df = [isNone |-> TRUE, rows |-> <<>>]
    /\ problem_df = <<>>
    /\ category_counts = <<>>
    /\ top_n = 0
    /\ top_problems = <<>>
    /\ result = "none"
    /\ scorer_log = [calls |-> 0, raised |-> FALSE]
    /\ main_ret = "running"
    /\ run = 1
    /\ first_run = [result |-> "none", top_problems |-> <<>>]
    /\ files = <<>>

\* mutant: every request asks for a full page
NextBatch_full_page ==
    /\ pc = "tw_while"
    /\ twitter_call.tweets_collected < twitter_call.max_results
    /\ twitter_call' = [twitter_call EXCEPT
                           !.batch_num = @ + 1,
                           !.batch_size = PageLimit,
                           !.retry_count = 0,
                           !.response = NoResponse,
                           !.waits = <<>>,
                           !.attempts = 0]
    /\ pc' = "tw_retry"
    /\ UNCHANGED <<analysis_vars, ret, reddit_call>>

\* lines 176-191: the pagination loop starts a batch
NextBatch ==
    /\ pc = "tw_while"
    /\ twitter_call.tweets_collected < twitter_call.max_results
    /\ twitter_call' = [twitter_call EXCEPT
                           !.batch_num = @ + 1,
                           !.batch_size = Min(PageLimit,
                                              twitter_call.max_results
                                                 - twitter_call.tweets_collected),
                           !.retry_count = 0,
                           !.response = NoResponse,
                           !.waits = <<>>,
                           !.attempts = 0]
    /\ pc' = "tw_retry"
    /\ UNCHANGED <<analysis_vars, ret, reddit_call>>

\* lines 176, 274: the loop ends because max_results tweets are collected
LoopEnds ==
    /\ pc = "tw_while"
    /\ ~(twitter_call.tweets_collected < twitter_call.max_results)
    /\ pc' = "tw_return"
    /\ UNCHANGED <<analysis_vars, ret, collector_vars>>

\* lines 193-205: a request is answered; break leaves the retry loop
SearchSucceeds ==
    /\ pc = "tw_retry"
    /\ twitter_call.retry_count < max_retries
    /\ \E r \in ApiResponses(twitter_call.batch_size,
                             Served(twitter_call.received) + 1) :
          twitter_call' = [twitter_call EXCEPT
                              !.response = r,
                              !.attempts = @ + 1,
                              !.received = Append(@, r.data)]
    /\ pc' = "tw_received"
    /\ UNCHANGED <<analysis_vars, ret, reddit_call>>

\* mutant: the rate-limit handler retries once more before it gives up
SearchRateLimited_one_more ==
    /\ pc = "tw_retry"
    /\ twitter_call.retry_count <= max_retries
    /\ LET n == twitter_call.retry_count + 1 IN
          IF n <= max_retries
          THEN /\ twitter_call' = [twitter_call EXCEPT
                                      !.retry_count = n,
                                      !.attempts = @ + 1,
                                      !.waits = Append(@, RateLimitWait * n)]
               /\ pc' = "tw_retry"
          ELSE /\ twitter_call' = [twitter_call EXCEPT
                                      !.retry_count = n,
                                      !.attempts = @ + 1,
                                      !.raised = "TooManyRequests"]
               /\ pc' = "tw_handle"
    /\ UNCHANGED <<analysis_vars, ret, reddit_call>>

\* lines 193-204, 207-215: a request hits the rate limit
SearchRateLimited ==
    /\ pc = "tw_retry"
    /\ twitter_call.retry_count < max_retries
    /\ LET n == twitter_call.retry_count + 1 IN
          IF n < max_retries
          THEN /\ twitter_call' = [twitter_call EXCEPT
                                      !.retry_count = n,
                                      !.attempts = @ + 1,
                                      !.waits = Append(@, RateLimitWait * n)]
               /\ pc' = "tw_retry"
          ELSE /\ twitter_call' = [twitter_call EXCEPT
                                      !.retry_count = n,
                                      !.attempts = @ + 1,
                                      !.raised = "TooManyRequests"]
               /\ pc' = "tw_handle"
    /\ UNCHANGED <<analysis_vars, ret, reddit_call>>

\* lines 193-204, 217-225: a request meets a server error
SearchServerError ==
    /\ pc = "tw_retry"
    /\ twitter_call.retry_count < max_retries
    /\ LET n == twitter_call.retry_count + 1 IN
          IF n < max_retries
          THEN /\ twitter_call' = [twitter_call EXCEPT
                                      !.retry_count = n,
                                      !.attempts = @ + 1,
                                      !.waits = Append(@, ServerErrorWait * n)]
               /\ pc' = "tw_retry"
          ELSE /\ twitter_call' = [twitter_call EXCEPT
                                      !.retry_count = n,
                                      !.attempts = @ + 1,
                                      !.raised = "TwitterServerError"]
               /\ pc' = "tw_handle"
    /\ UNCHANGED <<analysis_vars, ret, reddit_call>>

\* the exceptions of a request the retry loop does not catch
OtherErrors == {"Unauthorized", "Forbidden", "BadRequest"}

\* lines 193-204: a request raises another exception, which leaves the
\* retry loop and the pagination loop at once
SearchRaises ==
    /\ pc = "tw_retry"
    /\ twitter_call.retry_count < max_retries
    /\ \E e \in OtherErrors :
          twitter_call' = [twitter_call EXCEPT
                              !.attempts = @ + 1,
                              !.raised = e]
    /\ pc' = "tw_handle"
    /\ UNCHANGED <<analysis_vars, ret, reddit_call>>

\* mutant: an empty response starts the next batch
ResponseEmpty_continuing ==
    /\ pc = "tw_received"
    /\ twitter_call.response.isNone \/ twitter_call.response.data = <<>>
    /\ pc' = "tw_while"
    /\ UNCHANGED <<analysis_vars, ret, collector_vars>>

\* lines 227-229: a response without data ends the pagination
ResponseEmpty ==
    /\ pc = "tw_received"
    /\ twitter_call.response.isNone \/ twitter_call.response.data = <<>>
    /\ pc' = "tw_return"
    /\ UNCHANGED <<analysis_vars, ret, collector_vars>>

\* lines 231-272: every tweet of the response is appended; a next_token
\* continues the pagination, its absence ends it
ProcessBatch ==
    /\ pc = "tw_received"
    /\ twitter_call.response.data # <<>>
    /\ FirstBad(twitter_call.response.data) = 0
    /\ LET data == twitter_call.response.data
           token == twitter_call.response.next_token
       IN  /\ twitter_call' = [twitter_call EXCEPT
                  !.all_tweets = @ \o Rows(data, Len(data)),
                  !.tweets_collected = @ + Len(data),
                  !.next_token = IF token # "None" THEN token ELSE @]
           /\ pc' = IF token # "None" THEN "tw_while" ELSE "tw_return"
    /\ UNCHANGED <<analysis_vars, ret, reddit_call>>

\* lines 239-263: a tweet without public_metrics raises TypeError after the
\* tweets before it have been appended
ProcessBatchRaises ==
    /\ pc = "tw_received"
    /\ FirstBad(twitter_call.response.data) # 0
    /\ LET data == twitter_call.response.data
           k == FirstBad(data)
       IN  twitter_call' = [twitter_call EXCEPT
                  !.all_tweets = @ \o Rows(data, k - 1),
                  !.tweets_collected = @ + (k - 1),
                  !.raised = "TypeError"]
    /\ pc' = "tw_handle"
    /\ UNCHANGED <<analysis_vars, ret, reddit_call>>

\* mutant: the handler starts the failed batch again
HandleException_retrying ==
    /\ pc = "tw_handle"
    /\ twitter_call' = [twitter_call EXCEPT
                           !.retry_count = 0,
                           !.waits = <<>>,
                           !.attempts = 0,
                           !.raised = "None"]
    /\ pc' = "tw_retry"
    /\ UNCHANGED <<analysis_vars, ret, reddit_call>>

\* mutant: the handler drops what was collected
HandleException_discarding ==
    /\ pc = "tw_handle"
    /\ twitter_call' = [twitter_call EXCEPT !.all_tweets = <<>>]
    /\ pc' = "tw_return"
    /\ UNCHANGED <<analysis_vars, ret, reddit_call>>

\* lines 276-302: one of the four except clauses catches the exception and
\* prints; none of them raises or changes all_tweets
HandleException ==
    /\ pc = "tw_handle"
    /\ pc' = "tw_return"
    /\ UNCHANGED <<analysis_vars, ret, collector_vars>>

\* lines 304-308
ReturnTweets ==
    /\ pc = "tw_return"
    /\ ret' = twitter_call.all_tweets
    /\ pc' = "tw_returned"
    /\ UNCHANGED <<analysis_vars, collector_vars>>

NextTwitter ==
    \/ NextBatch
    \/ LoopEnds
    \/ SearchSucceeds
    \/ SearchRateLimited
    \/ SearchServerError
    \/ SearchRaises
    \/ ResponseEmpty
    \/ ProcessBatch
    \/ ProcessBatchRaises
    \/ HandleException
    \/ ReturnTweets

SpecTwitter == InitTwitter /\ [][NextTwitter]_vars

\* every API call returns or raises and the interpreter keeps running the
\* function: a step that is possible is eventually taken
SpecTwitterLive == SpecTwitter /\ WF_vars(NextTwitter)

(***************************************************************************)
(* Claims about collect_twitter_posts.                                     *)
(***************************************************************************)
TwitterRaised == twitter_call.raised # "None"

AfterPagination == pc \in {"tw_handle", "tw_return", "tw_returned"}

\* C24: each batch request is attempted at most max_retries = 3 times; a
\* successful attempt ends the retry loop at once (the next step of the
\* call looks at the response, and no further request is sent for the
\* batch); the third consecutive rate-limit or server-error failure of a
\* batch re-raises the error, and once an error has left the pagination
\* loop no further batch is started and no further request is sent.
C24_RetryBound ==
    /\ [](/\ twitter_call.attempts <= max_retries
          /\ pc = "tw_retry" => /\ twitter_call.retry_count < max_retries
                                /\ twitter_call.attempts = twitter_call.retry_count
                                /\ twitter_call.response.isNone
          /\ pc = "tw_received" => ~twitter_call.response.isNone
          /\ TwitterRaised => AfterPagination)
    /\ [][/\ twitter_call'.attempts # twitter_call.attempts =>
                \/ /\ pc = "tw_retry"
                   /\ twitter_call'.attempts = twitter_call.attempts + 1
                   /\ twitter_call'.batch_num = twitter_call.batch_num
                \/ /\ pc = "tw_while"
                   /\ twitter_call'.attempts = 0
                   /\ twitter_call'.batch_num = twitter_call.batch_num + 1
          /\ (twitter_call.response.isNone /\ ~twitter_call'.response.isNone)
                => pc' = "tw_received"
          /\ (pc = "tw_retry" /\ twitter_call'.response.isNone
                /\ twitter_call'.attempts = max_retries)
                => /\ pc' = "tw_handle"
                   /\ twitter_call'.raised \in
                         {"TooManyRequests", "TwitterServerError"} \cup OtherErrors
                   /\ twitter_call'.retry_count = max_retries =>
                         twitter_call'.raised \in
                            {"TooManyRequests", "TwitterServerError"}
          /\ (pc = "tw_retry" /\ twitter_call'.retry_count = max_retries)
                => pc' = "tw_handle"
          /\ AfterPagination =>
                /\ twitter_call'.batch_num = twitter_call.batch_num
                /\ twitter_call'.attempts = twitter_call.attempts
                /\ pc' \in {"tw_return", "tw_returned"}]_vars

\* the second batch was requested three times, every time against the
\* rate limit, and the error has left the loop
C24_Witness ==
    /\ pc = "tw_handle"
    /\ twitter_call.batch_num = 2
    /\ twitter_call.attempts = max_retries
    /\ twitter_call.raised = "TooManyRequests"
    /\ twitter_call.waits = <<RateLimitWait, 2 * RateLimitWait>>

\* C25: every rate-limit failure of a batch is followed by a wait of 60 s
\* times the attempt number and every server error by a wait of 10 s times
\* the attempt number, so that a batch that keeps hitting the rate limit
\* has waited 60 s, 120 s and 180 s.
C25_BackoffSchedule ==
    /\ \A i \in 1..Len(twitter_call.waits) :
          twitter_call.waits[i] \in {RateLimitWait * i, ServerErrorWait * i}
    /\ (/\ twitter_call.raised = "TooManyRequests"
        /\ twitter_call.retry_count = max_retries
        /\ \A i \in 1..Len(twitter_call.waits) :
              twitter_call.waits[i] = RateLimitWait * i)
          => twitter_call.waits = <<RateLimitWait, 2 * RateLimitWait,
                                    3 * RateLimitWait>>

RECURSIVE AllRows(_)
AllRows(batches) ==
    IF batches = <<>> THEN <<>>
    ELSE Rows(batches[1], Len(batches[1])) \o AllRows(Tail(batches))

IsPrefix(s, t) == Len(s) <= Len(t) /\ SubSeq(t, 1, Len(s)) = s

ButLast(s) == IF s = <<>> THEN <<>> ELSE SubSeq(s, 1, Len(s) - 1)

\* C26 as stated: after an error the call returns normally and the frame it
\* returns holds exactly the tweets of whole batches: of every batch
\* received, or of every batch received but the last one.
C26_WholeBatchesOnly ==
    /\ TwitterRaised => AfterPagination
    /\ (pc = "tw_returned" /\ TwitterRaised) =>
          ret \in {AllRows(twitter_call.received),
                   AllRows(ButLast(twitter_call.received))}

\* C26 (amended): whatever error occurs, the call returns normally and the
\* frame it returns holds the tweets appended before the error: every
\* tweet of the batches processed in full and, when the error occurs while
\* a received batch is processed, the tweets of that batch before the
\* failing one.  An error raised by a request leaves every received batch
\* in the result.
C26_PartialResult ==
    /\ TwitterRaised => AfterPagination
    /\ pc = "tw_handle" => ENABLED HandleException
    /\ pc = "tw_return" => ENABLED ReturnTweets
    /\ pc = "tw_returned" =>
          /\ ret = twitter_call.all_tweets
          /\ IsPrefix(ret, AllRows(twitter_call.received))
          /\ IsPrefix(AllRows(ButLast(twitter_call.received)), ret)
          /\ twitter_call.raised \notin {"None", "TypeError"} =>
                ret = AllRows(twitter_call.received)
          /\ twitter_call.raised = "TypeError" =>
                Len(ret) = Len(AllRows(twitter_call.received))
                              - Len(twitter_call.response.data)
                              + FirstBad(twitter_call.response.data) - 1

\* the rate limit was exhausted at a later batch and the tweets of the
\* batches before it are returned
C26_Witness ==
    /\ pc = "tw_returned"
    /\ twitter_call.raised = "TooManyRequests"
    /\ twitter_call.batch_num >= 2
    /\ Len(ret) >= 1

\* C27: every request of the pagination loop asks for between 1 and 100
\* tweets and for no more than max_results minus the tweets collected, and,
\* the responses holding at most the requested number of tweets, the
\* number of tweets collected never exceeds max_results.
C27_CollectionBound ==
    /\ twitter_call.tweets_collected <= twitter_call.max_results
    /\ twitter_call.tweets_collected = Len(twitter_call.all_tweets)
    /\ pc \in {"tw_retry", "tw_received"} =>
          /\ twitter_call.batch_size >= 1
          /\ twitter_call.batch_size <= PageLimit
          /\ twitter_call.batch_size
                <= twitter_call.max_results - twitter_call.tweets_collected
    /\ pc = "tw_received" =>
          Len(twitter_call.response.data) <= twitter_call.batch_size

\* a call for more than a page: a full page, then the remainder
C27_Witness ==
    /\ pc = "tw_returned"
    /\ twitter_call.max_results > PageLimit
    /\ twitter_call.batch_num = 2
    /\ twitter_call.batch_size = twitter_call.max_results - PageLimit
    /\ twitter_call.tweets_collected = twitter_call.max_results

\* C28: every call of collect_twitter_posts eventually returns.
C28_Terminates == <>(pc = "tw_returned")

\* a call that returned after several batches and a retried request
C28_Witness ==
    /\ pc = "tw_returned"
    /\ twitter_call.batch_num >= 3
    /\ twitter_call.waits # <<>>
    /\ ~TwitterRaised

(***************************************************************************)
(* collect_reddit_posts (collect_polymarket_data.py, lines 36-131).       *)
(* reddit_call is the frame of one call.  Times are whole hours: utcnow   *)
(* is the UTC wall clock at the call, utc_offset the offset of the host's *)
(* local time from UTC, created_utc of a post its POSIX timestamp.        *)
(* Fields that are not locals of the code: utcnow, utc_offset, searched   *)
(* (the subreddits the loop has gone through) and failed (those of them   *)
(* whose search raised).                                                  *)
(***************************************************************************)
MaxSubreddits == 2
MaxListing == 2

DaysBack == 30
HoursPerDay == 24

\* POSIX time of the call, in hours
UtcNow == 1000000

DefaultSubreddits ==
    <<"polymarket", "cryptocurrency", "CryptoMarkets", "defi", "ethereum",
      "polygon", "betting", "prediction_markets">>

\* the lists of subreddits the function is called with
SubredditLists ==
    {SubSeq(DefaultSubreddits, a, a + n - 1) : a \in 1..2, n \in 1..MaxSubreddits}

\* offsets of the host's time zone from UTC, in hours
UtcOffsets == {-1, 0, 1}

\* datetime.timestamp() of a naive datetime: the value is taken as local
\* time of the host
naive_timestamp(naive, utc_offset) == naive - utc_offset

\* lines 54-55
cutoff(utcnow, days_back, utc_offset) ==
    naive_timestamp(utcnow - HoursPerDay * days_back, utc_offset)

\* creation times of the posts the API lists: one hour before now minus
\* days_back, and exactly then
CreatedChoices == {UtcNow - HoursPerDay * DaysBack - 1,
                   UtcNow - HoursPerDay * DaysBack}

\* the listings of a subreddit: at most MaxListing posts
Listings(name) ==
    {[k \in 1..n |-> [id |-> <<name, k>>, created_utc |-> c[k], subreddit |-> name]] :
        <<n, c>> \in UNION {{<<m, f>> : f \in [1..m -> CreatedChoices]} :
                               m \in 0..MaxListing}}

\* lines 87-116: the posts of a listing that pass the date filter
accepted(listing, cutoff_timestamp) ==
    LET recent(post) == post.created_utc >= cutoff_timestamp
    IN  SelectSeq(listing, recent)

InitReddit ==
    /\ pc = "rd_for"
    /\ \E subs \in SubredditLists, off \in UtcOffsets :
          reddit_call = [active |-> TRUE, subreddits |-> subs, days_back |-> DaysBack,
                         utcnow |-> UtcNow, utc_offset |-> off,
                         cutoff_timestamp |-> cutoff(UtcNow, DaysBack, off),
                         all_posts |-> <<>>, searched |-> 0, failed |-> {}]
    /\ twitter_call = NoCall
    /\ problem_keywords = CodeProblemKeywords
    /\ problem_categories = CodeProblemCategories
    /\ vader \in Scorers
    /\ arg = <<>>
    /\ ret = <<>>
    /\ df = [isNone |-> TRUE, rows |-> <<>>]
    /\ problem_df = <<>>
    /\ category_counts = <<>>
    /\ top_n = 0
    /\ top_problems = <<>>
    /\ result = "none"
    /\ scorer_log = [calls |-> 0, raised |-> FALSE]
    /\ main_ret = "running"
    /\ run = 1
    /\ first_run = [result |-> "none", top_problems |-> <<>>]
    /\ files = <<>>

\* the subreddit the loop of line 65 is at
subreddit_name == reddit_call.subreddits[reddit_call.searched + 1]

\* lines 65-121: a subreddit is searched without error
SearchSubreddit ==
    /\ pc = "rd_for"
    /\ reddit_call.searched < Len(reddit_call.subreddits)
    /\ \E post_generator \in Listings(subreddit_name) :
          reddit_call' = [reddit_call EXCEPT
                             !.all_posts = @ \o accepted(post_generator,
                                                         reddit_call.cutoff_timestamp),
                             !.searched = @ + 1]
    /\ UNCHANGED <<pc, analysis_vars, ret, twitter_call>>

\* lines 65-125: the search of a subreddit raises after yielded posts of
\* the listing have been looked at; r/polymarket is listed in full at line
\* 81 before the first post is looked at, the other subreddits are
\* iterated while they are fetched.  The except clause goes on with the
\* next subreddit.
SearchSubredditRaises ==
    /\ pc = "rd_for"
    /\ reddit_call.searched < Len(reddit_call.subreddits)
    /\ \E post_generator \in Listings(subreddit_name) :
          \E yielded \in 0..Len(post_generator) :
             /\ subreddit_name = "polymarket" => yielded = 0
             /\ reddit_call' = [reddit_call EXCEPT
                    !.all_posts = @ \o accepted(SubSeq(post_generator, 1, yielded),
                                                reddit_call.cutoff_timestamp),
                    !.searched = @ + 1,
                    !.failed = @ \cup {reddit_call.searched + 1}]
    /\ UNCHANGED <<pc, analysis_vars, ret, twitter_call>>

\* lines 127-131
ReturnPosts ==
    /\ pc = "rd_for"
    /\ reddit_call.searched = Len(reddit_call.subreddits)
    /\ ret' = reddit_call.all_posts
    /\ pc' = "rd_returned"
    /\ UNCHANGED <<analysis_vars, collector_vars>>

NextReddit ==
    \/ SearchSubreddit
    \/ SearchSubredditRaises
    \/ ReturnPosts

SpecReddit == InitReddit /\ [][NextReddit]_vars

(***************************************************************************)
(* Claims about collect_reddit_posts.                                      *)
(***************************************************************************)
\* an error in one subreddit does not stop the collection: every step of
\* the loop goes on to the next subreddit and keeps the posts accepted so
\* far, and the call returns after the last subreddit
RedditIsolation ==
    /\ [](pc = "rd_returned" =>
             /\ reddit_call.searched = Len(reddit_call.subreddits)
             /\ ret = reddit_call.all_posts)
    /\ [][pc = "rd_for" =>
             /\ IsPrefix(reddit_call.all_posts, reddit_call'.all_posts)
             /\ \/ reddit_call'.searched = reddit_call.searched + 1
                \/ pc' = "rd_returned"]_vars

\* the cutoff of the date filter: now minus days_back, as a POSIX time
IntendedCutoff ==
    reddit_call.utcnow - HoursPerDay * reddit_call.days_back

\* C29: an error while searching one subreddit does not stop the
\* collection, posts already accepted stay in the result, and every post
\* of the result was created at or after now minus days_back.
C29_ErrorIsolation ==
    /\ RedditIsolation
    /\ [](\A i \in 1..Len(reddit_call.all_posts) :
             reddit_call.all_posts[i].created_utc >= IntendedCutoff)


=============================================================================
